---- MODULE Spec2Model ----
(***************************************************************************)
(* Best-first bidirectional FM-index descent engine (DescentDriver::go,    *)
(* Descent::init, followMatches, bounce, recalcOutgoing,                   *)
(* followBestOutgoing).  Read offsets are 0-based 5' offsets as in the     *)
(* source; nucleotides are 0..3 (A, C, G, T).                              *)
(***************************************************************************)
EXTENDS Integers, Sequences, FiniteSets, TLC

Bases == 0..3

\* std::numeric_limits<size_t>::max(), used for "no parent" / "no position"
NoId == 0 - 1

(***************************************************************************)
(* The bidirectional index (external collaborator): suffix-array ranges    *)
(* over the reference text (forward index) and over its reverse (mirror    *)
(* index).  Row 0 is the empty suffix.                                     *)
(***************************************************************************)
Ref == <<0, 3, 3, 0, 1, 0, 3, 3, 2, 2, 3, 0, 0, 3>>

RefLen == Len(Ref)

Reverse(s) == [i \in 1..Len(s) |-> s[Len(s) + 1 - i]]

Text(mirror) == IF mirror THEN Reverse(Ref) ELSE Ref

\* character of the text at 1-based position i, -1 past the end
CharAt(txt, i) == IF i >= 1 /\ i <= Len(txt) THEN txt[i] ELSE 0 - 1

RECURSIVE SufLess(_, _, _)
\* suffix starting at i sorts strictly before the suffix starting at j
SufLess(txt, i, j) ==
    IF i = j THEN FALSE
    ELSE IF i > Len(txt) THEN TRUE
    ELSE IF j > Len(txt) THEN FALSE
    ELSE IF txt[i] # txt[j] THEN txt[i] < txt[j]
    ELSE SufLess(txt, i + 1, j + 1)

\* suffix array: row -> 1-based start of the suffix (RefLen + 1 = empty suffix)
MkSA(txt) ==
    LET n == Len(txt)
        rank(i) == Cardinality({j \in 1..(n + 1) : SufLess(txt, j, i)})
    IN  [r \in 0..n |-> CHOOSE i \in 1..(n + 1) : rank(i) = r]

SAFw == MkSA(Ref)
SABw == MkSA(Reverse(Ref))

\* BWT character of each row; -1 for the row of the whole text
MkBWT(txt, sa) == [r \in 0..Len(txt) |-> CharAt(txt, sa[r] - 1)]

BWTFw == MkBWT(Ref, SAFw)
BWTBw == MkBWT(Reverse(Ref), SABw)

\* number of rows below i whose BWT character is c
MkOcc(bwt, n) ==
    [c \in Bases |-> [i \in 0..(n + 1) |->
        Cardinality({r \in 0..(i - 1) : bwt[r] = c})]]

OccFw == MkOcc(BWTFw, RefLen)
OccBw == MkOcc(BWTBw, RefLen)

\* fchr: first row of the suffixes starting with c (fchr[4] = number of rows)
fchr ==
    [c \in 0..4 |-> 1 + Cardinality({i \in 1..RefLen : Ref[i] < c})]

Occ(mirror, c, i) == IF mirror THEN OccBw[c][i] ELSE OccFw[c][i]
BWT(mirror, r) == IF mirror THEN BWTBw[r] ELSE BWTFw[r]

\* LF step of the range [top, bot) on character c
LFtop(mirror, c, top) == fchr[c] + Occ(mirror, c, top)

\* Ebwt::mapBiLFEx: the four child ranges in the index stepped (t, b) and in
\* the other index (tp, bp), from range [top, bot) and its prime [topp, botp)
mapBiLFEx(mirror, top, bot, topp, botp) ==
    LET t == [c \in Bases |-> LFtop(mirror, c, top)]
        b == [c \in Bases |-> LFtop(mirror, c, bot)]
        w == [c \in Bases |-> b[c] - t[c]]
        dollar == Cardinality({r \in top..(bot - 1) : BWT(mirror, r) = 0 - 1})
        tp == [c \in Bases |->
                 topp + dollar
                 + (IF c > 0 THEN w[0] ELSE 0)
                 + (IF c > 1 THEN w[1] ELSE 0)
                 + (IF c > 2 THEN w[2] ELSE 0)]
    IN  [t |-> t, b |-> b, tp |-> tp, bp |-> [c \in Bases |-> tp[c] + w[c]]]

\* Ebwt::mapLF1: BWT character of the single row (or -1) and the row it maps to
mapLF1(mirror, row) ==
    LET cc == BWT(mirror, row)
    IN  [cc |-> cc, row |-> IF cc >= 0 THEN LFtop(mirror, cc, row) ELSE row]

RECURSIVE PatRange(_, _, _, _, _)
\* range of the rows whose suffix starts with pat[1..k], adding characters in
\* the order a search of that index consumes them (last character first)
PatRange(mirror, pat, k, top, bot) ==
    IF k = 0 THEN <<top, bot>>
    ELSE PatRange(mirror, pat, k - 1,
                  LFtop(mirror, pat[k], top), LFtop(mirror, pat[k], bot))

\* Ebwt::ftabLoHi: range of the ftabChars-mer seq[off .. off+len-1] (0-based
\* off); the mirror index holds it reversed
ftabLoHi(mirror, seq, off, len) ==
    LET kmer == [i \in 1..len |-> seq[off + i]]
        pat == IF mirror THEN Reverse(kmer) ELSE kmer
    IN  PatRange(mirror, pat, len, 0, RefLen + 1)


(***************************************************************************)
(* Inputs of one go(): the read, the roots with their configs, the         *)
(* scoring scheme and the ftab width of the index.                         *)
(***************************************************************************)
VARIABLES
    q,         \* DescentQuery: the read, a sequence of bases (q.seq)
    roots,     \* roots_ / confs_: sequence of [off5p, l2r, fw, pri, cons]
    sc,        \* Scoring: [mm, rdgOp, rdgEx, rfgOp, rfgEx, gapbar]
    ftabChars, \* ebwt.eh().ftabChars()
    junk,      \* what a read past the end of the position arena yields
    df,        \* df_: arena of Descent, ids 0 .. Len(df)-1
    pf,        \* pf_: arena of DescentPos, ids 0 .. Len(pf)-1
    heap,      \* heap_: sequence of [pri, id] in insertion order
    re,        \* re_: set of [key, pen], one entry per key
    sink,      \* alsink_: sequence of hits
    pc,        \* position of go(): [at, i, tick, run], at "root" i is the
               \* next root; tick alternates with every loop iteration; run
               \* counts the calls of go() on these inputs
    last,      \* what the last step of go() did (for the properties)
    trail,     \* the descents popped from the heap by this call, in order
    prev       \* the trail and the sink of the call before this one

vars ==
    <<q, roots, sc, ftabChars, junk, df, pf, heap, re, sink, pc, last, trail, prev>>

QLen == Len(q)

\* DescentQuery::getc / get: base at 5' offset off5p, complemented on the
\* reverse-complement strand
getc(rd, off5p, fw) == IF fw THEN rd[off5p + 1] ELSE 3 - rd[off5p + 1]

\* the strand sequence (q.seq or q.seqrc) as ftabLoHi reads it
StrandSeq(rd, fw) ==
    IF fw THEN rd ELSE [i \in 1..Len(rd) |-> 3 - rd[Len(rd) + 1 - i]]

(***************************************************************************)
(* Edits, priorities, edges                                                *)
(***************************************************************************)
NoEdit == [type |-> "none", pos |-> 0, chr |-> 0 - 1, qchr |-> 0 - 1]
Edit(pos, chr, qchr, type) ==
    [type |-> type, pos |-> pos, chr |-> chr, qchr |-> qchr]
isReadGap(e) == e.type = "rdg"
isRefGap(e) == e.type = "rfg"
inited(e) == e.type # "none"

DescentPriority(pen, depth, width, rootpri) ==
    [pen |-> pen, depth |-> depth, width |-> width, rootpri |-> rootpri]

\* an order that prefers the shallower of two edges of equal penalty
PriLessShallow(a, b) ==
    IF a.pen # b.pen THEN a.pen < b.pen
    ELSE IF a.depth # b.depth THEN a.depth < b.depth
    ELSE IF a.width # b.width THEN a.width < b.width
    ELSE a.rootpri < b.rootpri

\* DescentPriority::operator<
PriLess(a, b) ==
    IF a.pen # b.pen THEN a.pen < b.pen
    ELSE IF a.depth # b.depth THEN a.depth > b.depth
    ELSE IF a.width # b.width THEN a.width < b.width
    ELSE a.rootpri < b.rootpri

\* DescentEdge::init
DescentEdge(e, off5p, pri, posFlag) ==
    [e |-> e, off5p |-> off5p, pri |-> pri, posFlag |-> posFlag]

(***************************************************************************)
(* DescentOutgoing: the five best edges, best first                        *)
(***************************************************************************)
RankerSize == 5

RECURSIVE InsertEdge(_, _)
InsertEdge(out, edge) ==
    IF out = <<>> THEN <<edge>>
    ELSE IF PriLess(edge.pri, Head(out).pri) THEN <<edge>> \o out
    ELSE <<Head(out)>> \o InsertEdge(Tail(out), edge)

\* a ranker that, once full, turns away every further edge
updateKeepFirst(out, edge) ==
    IF Len(out) >= RankerSize THEN out ELSE InsertEdge(out, edge)

\* DescentOutgoing::update
update(out, edge) ==
    LET ins == InsertEdge(out, edge)
    IN  IF Len(ins) > RankerSize THEN SubSeq(ins, 1, RankerSize) ELSE ins

\* DescentOutgoing::bestPri
bestPri(out) == Head(out).pri

\* DescentOutgoing::rotate
rotate(out) == [edge |-> Head(out), out |-> Tail(out)]

(***************************************************************************)
(* DescentPos and its flags                                                *)
(***************************************************************************)
Zero4 == [j \in Bases |-> 0]
False4 == [j \in Bases |-> FALSE]

\* DescentPos::reset
ResetPos ==
    [c |-> 0 - 1, topf |-> Zero4, botf |-> Zero4, topb |-> Zero4,
     botb |-> Zero4, mm |-> False4, rdg |-> False4, rfg |-> FALSE]

\* DescentPosFlags::exhausted
exhausted(pos) ==
    /\ \A j \in Bases : pos.mm[j] /\ pos.rdg[j]
    /\ pos.rfg

\* pf[d]; a read past the arena yields whatever the memory holds
PfGet(pfa, d) == IF d >= 0 /\ d < Len(pfa) THEN pfa[d + 1] ELSE junk

\* pf[d] = pos (a write past the arena is lost)
PfSet(pfa, d, pos) ==
    IF d >= 0 /\ d < Len(pfa) THEN [pfa EXCEPT ![d + 1] = pos] ELSE pfa

(***************************************************************************)
(* DescentRedundancyChecker                                                *)
(***************************************************************************)
RedKey(fw, al5pi, al5pf, rflen, topf, botf) ==
    <<fw, al5pi, al5pf, rflen, topf, botf>>

\* DescentRedundancyChecker::contains: admitted before at a penalty <= pen
containsSamePen(rd, key, pen) == \E x \in rd : x.key = key /\ x.pen = pen

contains(rd, key, pen) == \E x \in rd : x.key = key /\ x.pen <= pen

\* DescentRedundancyChecker::check: [ok, re]
checkForget(rd, key, pen) ==
    IF contains(rd, key, pen) THEN [ok |-> FALSE, re |-> rd]
    ELSE [ok |-> TRUE, re |-> {[key |-> key, pen |-> pen]}]

check(rd, key, pen) ==
    IF contains(rd, key, pen) THEN [ok |-> FALSE, re |-> rd]
    ELSE [ok |-> TRUE,
          re |-> {x \in rd : x.key # key} \cup {[key |-> key, pen |-> pen]}]

\* a call of check with what it was asked, what it found and what it left
Checked(rd, key, pen) ==
    [ok |-> check(rd, key, pen).ok, re |-> check(rd, key, pen).re,
     call |-> [key |-> key, pen |-> pen, ok |-> check(rd, key, pen).ok,
               before |-> rd, after |-> check(rd, key, pen).re]]

(***************************************************************************)
(* EHeap<TDescentPair>                                                     *)
(***************************************************************************)
PairLess(a, b) ==
    \/ PriLess(a.pri, b.pri)
    \/ (~PriLess(b.pri, a.pri) /\ a.id < b.id)

\* EHeap::insert
HeapInsert(h, pri, id) == Append(h, [pri |-> pri, id |-> id])

\* index of the entry EHeap::pop returns
HeapMinIdx(h) ==
    CHOOSE i \in 1..Len(h) :
        \A k \in 1..Len(h) : k = i \/ ~PairLess(h[k], h[i]) \/ (h[k] = h[i] /\ i < k)

RemoveAt(s, i) == SubSeq(s, 1, i - 1) \o SubSeq(s, i + 1, Len(s))

(***************************************************************************)
(* DescentAlignmentSink                                                    *)
(***************************************************************************)
RECURSIVE ChainEdits(_, _)
\* edits on the ancestor chain of descent id, root first
ChainEdits(dfa, id) ==
    IF id = NoId THEN <<>>
    ELSE LET d == dfa[id + 1]
         IN  ChainEdits(dfa, d.parent)
             \o (IF inited(d.edit) THEN <<d.edit>> ELSE <<>>)

\* two edit scripts hold the same edits, in whatever order
SameEdits(e1, e2) ==
    /\ Len(e1) = Len(e2)
    /\ {e1[i] : i \in 1..Len(e1)} = {e2[i] : i \in 1..Len(e2)}

\* a sink that records every report, seen before or not
reportEvery(snk, dfa, topf, botf, topb, botb, descid, rid, e, pen) ==
    Append(snk, [topf |-> topf, botf |-> botf, topb |-> topb, botb |-> botb,
                 pen |-> pen, rid |-> rid,
                 edits |-> ChainEdits(dfa, descid)
                           \o (IF inited(e) THEN <<e>> ELSE <<>>)])

\* DescentAlignmentSink::reportAlignment
reportAlignment(snk, dfa, topf, botf, topb, botb, descid, rid, e, pen) ==
    LET eds == ChainEdits(dfa, descid) \o (IF inited(e) THEN <<e>> ELSE <<>>)
        hit == [topf |-> topf, botf |-> botf, topb |-> topb, botb |-> botb,
                pen |-> pen, rid |-> rid, edits |-> eds]
        dup == \E i \in 1..Len(snk) :
                  /\ snk[i].topf = topf /\ snk[i].botf = botf
                  /\ snk[i].topb = topb /\ snk[i].botb = botb
                  /\ SameEdits(snk[i].edits, eds)
    IN  IF dup THEN snk ELSE Append(snk, hit)

\* DescentAlignmentSink::nrange, nelt
nrange(snk) == Len(snk)
RECURSIVE nelt(_)
nelt(snk) ==
    IF snk = <<>> THEN 0 ELSE (Head(snk).botf - Head(snk).topf) + nelt(Tail(snk))


(***************************************************************************)
(* Descent.  The operators below take and return the mutable state of one  *)
(* go() as a record m = [df, pf, heap, re, sink, log].                     *)
(***************************************************************************)
nobranchDepth == 20

Dsc(m, id) == m.df[id + 1]
SetDsc(m, id, d) == [m EXCEPT !.df[id + 1] = d]

\* EFactory::alloc on the position arena: one default-constructed record
AllocPos(pfa) == Append(pfa, ResetPos)

\* the head of followMatches: flip l2r_ when the end ahead is already reached
\* a followMatches in which a descent that is not a root and touches neither
\* read end turns around
FMDirTurn(d, fw) ==
    IF d.parent # NoId /\ d.al5pi > 0 /\ d.al5pf < QLen - 1
    THEN ~d.l2r
    ELSE IF (d.l2r = fw)
         THEN (IF d.al5pf = QLen - 1 THEN ~d.l2r ELSE d.l2r)
         ELSE (IF d.al5pi = 0 THEN ~d.l2r ELSE d.l2r)

FMDir(d, fw) ==
    IF (d.l2r = fw)
    THEN (IF d.al5pf = QLen - 1 THEN ~d.l2r ELSE d.l2r)
    ELSE (IF d.al5pi = 0 THEN ~d.l2r ELSE d.l2r)

\* the first 5' offset followMatches looks at (off5p_i)
FMStart(d, toward3p) ==
    IF toward3p
    THEN (IF d.al5pi = d.al5pf THEN d.al5pi ELSE d.al5pf + 1)
    ELSE (IF d.al5pi = d.al5pf THEN d.al5pi ELSE d.al5pi - 1)

\* local state of followMatches
FMState(d, pfa, rd, off5p, topf, botf, topb, botb) ==
    [d |-> d, pf |-> pfa, re |-> rd, off5p |-> off5p,
     topf |-> topf, botf |-> botf, topb |-> topb, botb |-> botb,
     hitEnd |-> FALSE, done |-> FALSE, fail |-> FALSE, branches |-> FALSE,
     retFalse |-> FALSE, jump |-> "none", offs |-> {}, checks |-> <<>>]

\* a position record holding only the range of character c
PosOf(c, topf, botf, topb, botb) ==
    [ResetPos EXCEPT !.c = c, !.topf[c] = topf, !.botf[c] = botf,
                     !.topb[c] = topb, !.botb[c] = botb]

RECURSIVE AllocN(_, _)
AllocN(pfa, n) == IF n = 0 THEN pfa ELSE AllocN(AllocPos(pfa), n - 1)

\* ftabFits: the ftabChars characters of the jump lie inside the read
ftabFits(off5p, toward3p) ==
    ~(\/ (toward3p /\ ftabChars + off5p > QLen)
      \/ (~toward3p /\ off5p < ftabChars))

\* a test that takes the ftab jump for a table of one character too
useFtabAnyWidth(off5p, toward3p) ==
    ftabChars <= nobranchDepth /\ ftabFits(off5p, toward3p)

\* the test of the root part: jump through ftab, or start from fchr
useFtab(off5p, toward3p) ==
    ftabChars > 1 /\ ftabChars <= nobranchDepth /\ ftabFits(off5p, toward3p)

\* followMatches, root part: the ftab jump
FMFtab(st, fw, toward3p) ==
    LET d == st.d
        F == ftabChars
        seq == StrandSeq(q, fw)
        off0 == IF fw THEN st.off5p ELSE QLen - st.off5p - 1
        off_r2l == IF d.l2r THEN off0 ELSE off0 - (F - 1)
        fr == ftabLoHi(FALSE, seq, off_r2l, F)
        br == ftabLoHi(TRUE, seq, off_r2l, F)
        c_r2l == seq[off_r2l + 1]
        c_l2r == seq[off_r2l + F]
        cc == IF d.l2r THEN c_l2r ELSE c_r2l
        al5pf == IF toward3p THEN d.al5pf + (F - 1) ELSE d.al5pf
        al5pi == IF toward3p THEN d.al5pi ELSE d.al5pi - (F - 1)
        hitEnd == IF toward3p THEN al5pf = QLen - 1 ELSE al5pi = 0
        done == hitEnd /\ al5pi = 0 /\ al5pf = QLen - 1
        posid == Len(st.pf)
        pf1 == AllocN(st.pf, F)
        pf2 == PfSet(pf1, posid + F - 1, PosOf(cc, fr[1], fr[2], br[1], br[2]))
    IN  IF fr[2] - fr[1] = 0
        THEN [st EXCEPT !.retFalse = TRUE, !.topf = fr[1], !.botf = fr[2],
                        !.jump = "ftab", !.offs = off_r2l..(off_r2l + F - 1)]
        ELSE [st EXCEPT
                !.jump = "ftab", !.offs = off_r2l..(off_r2l + F - 1),
                !.topf = fr[1], !.botf = fr[2], !.topb = br[1], !.botb = br[2],
                !.off5p = IF toward3p THEN st.off5p + F ELSE st.off5p - F,
                !.d = [d EXCEPT !.len = d.len + F, !.al5pf = al5pf,
                                !.al5pi = al5pi, !.posid = posid],
                !.hitEnd = hitEnd, !.done = done, !.pf = pf2]

\* followMatches, root part: one character through fchr
FMFchr(st, fw, toward3p) ==
    LET d == st.d
        rdc == getc(q, st.off5p, fw)
        top == fchr[rdc]
        bot == fchr[rdc + 1]
        hitEnd == IF toward3p THEN d.al5pf = QLen - 1 ELSE d.al5pi = 0
        done == hitEnd /\ d.al5pi = 0 /\ d.al5pf = QLen - 1
        posid == Len(st.pf)
        pf1 == AllocPos(st.pf)
        pf2 == PfSet(pf1, posid, PosOf(rdc, top, bot, top, bot))
    IN  IF bot - top = 0
        THEN [st EXCEPT !.retFalse = TRUE, !.topf = top, !.botf = bot,
                        !.topb = top, !.botb = bot,
                        !.jump = "fchr", !.offs = {st.off5p}]
        ELSE [st EXCEPT
                !.jump = "fchr", !.offs = {st.off5p},
                !.topf = top, !.botf = bot, !.topb = top, !.botb = bot,
                !.off5p = IF toward3p THEN st.off5p + 1 ELSE st.off5p - 1,
                !.d = [d EXCEPT !.len = d.len + 1, !.posid = posid],
                !.hitEnd = hitEnd, !.done = done, !.pf = pf2]

\* the redundancy check that ends the root part: s1 is the state after the
\* ftab / fchr jump
\* a root that carries on after the key of its jump was turned down
FMRootCheckGoOn(s1, fw, ck) ==
    IF s1.retFalse THEN s1
    ELSE [s1 EXCEPT !.re = ck.re, !.checks = Append(s1.checks, ck.call)]

FMRootCheck(s1, fw, ck) ==
    IF s1.retFalse THEN s1
    ELSE IF ~ck.ok
    THEN [s1 EXCEPT !.retFalse = TRUE, !.checks = Append(s1.checks, ck.call)]
    ELSE [s1 EXCEPT !.re = ck.re, !.checks = Append(s1.checks, ck.call)]

FMRootKey(s1, fw) ==
    Checked(s1.re,
          RedKey(fw, s1.d.al5pi, s1.d.al5pf,
                 s1.d.al5pf - s1.d.al5pi + 1 + s1.d.gapadd, s1.topf, s1.botf),
          s1.d.pen)

FMRootChecked(s1, fw) == FMRootCheck(s1, fw, FMRootKey(s1, fw))

\* followMatches, root part (if(root()) { ... }) with the redundancy check
FMRoot(st, fw, toward3p) ==
    FMRootChecked(IF useFtab(st.off5p, toward3p)
                      THEN FMFtab(st, fw, toward3p)
                      ELSE FMFchr(st, fw, toward3p), fw)

\* the ranges of a one-row range after mapLF1: only character lf.cc is there
OneRow(lf, topp, botp) ==
    [t |-> [c \in Bases |-> IF c = lf.cc THEN lf.row ELSE 0],
     b |-> [c \in Bases |-> IF c = lf.cc THEN lf.row + 1 ELSE 0],
     tp |-> [c \in Bases |-> IF c = lf.cc THEN topp ELSE 0],
     bp |-> [c \in Bases |-> IF c = lf.cc THEN botp ELSE 0],
     cc |-> lf.cc]

WideRows(bi) == [t |-> bi.t, b |-> bi.b, tp |-> bi.tp, bp |-> bi.bp, cc |-> 0 - 1]

\* the index step of the loop: mapBiLFEx on a range wider than one row,
\* mapLF1 otherwise
StepRanges(ltr, top, bot, topp, botp, wide) ==
    IF wide THEN WideRows(mapBiLFEx(ltr, top, bot, topp, botp))
    ELSE OneRow(mapLF1(ltr, top), topp, botp)

\* one iteration of the loop, r the outcome of the index step
FMStep(st, fw, toward3p, wide, r) ==
    LET d == st.d
        rdc == getc(q, st.off5p, fw)
        width == st.botf - st.topf
        ltr == d.l2r
        fail1 == IF wide THEN r.b[rdc] <= r.t[rdc] ELSE r.cc # rdc
        branches == IF wide THEN r.b[rdc] - r.t[rdc] < width ELSE fail1
        tf == IF ltr THEN r.tp ELSE r.t
        bf == IF ltr THEN r.bp ELSE r.b
        tb == IF ltr THEN r.t ELSE r.tp
        bb == IF ltr THEN r.b ELSE r.bp
        newid == Len(st.pf)
        posid == IF d.posid = NoId THEN newid ELSE d.posid
        pf1 == PfSet(AllocPos(st.pf), posid + d.len,
                     [ResetPos EXCEPT !.c = rdc, !.topf = tf, !.botf = bf,
                                      !.topb = tb, !.botb = bb])
        al5pf == IF toward3p THEN d.al5pf + 1 ELSE d.al5pf
        al5pi == IF toward3p THEN d.al5pi ELSE d.al5pi - 1
        ck == Checked(st.re,
                      RedKey(fw, al5pi, al5pf, al5pf - al5pi + 1 + d.gapadd,
                             tf[rdc], bf[rdc]),
                      d.pen)
        fail == fail1 \/ ~ck.ok
        hitEnd == ~fail /\ (IF toward3p THEN al5pf = QLen - 1 ELSE al5pi = 0)
        done == hitEnd /\ al5pi = 0 /\ al5pf = QLen - 1
    IN  [st EXCEPT
           !.offs = st.offs \cup {st.off5p},
           !.topf = tf[rdc], !.botf = bf[rdc],
           !.topb = tb[rdc], !.botb = bb[rdc],
           !.pf = pf1,
           !.re = IF fail1 THEN st.re ELSE ck.re,
           !.checks = IF fail1 THEN st.checks ELSE Append(st.checks, ck.call),
           !.fail = fail,
           !.branches = st.branches \/ branches,
           !.hitEnd = hitEnd, !.done = done,
           !.off5p = IF fail THEN st.off5p
                     ELSE IF toward3p THEN st.off5p + 1
                     ELSE st.off5p - 1,
           !.d = IF fail THEN [d EXCEPT !.posid = posid]
                 ELSE [d EXCEPT !.posid = posid, !.len = d.len + 1,
                                !.al5pf = al5pf, !.al5pi = al5pi]]

RECURSIVE FMLoop(_, _, _)
\* followMatches, the step-by-step loop while(!fail && !hitEnd)
FMLoop(st, fw, toward3p) ==
    IF st.fail \/ st.hitEnd THEN st
    ELSE
    LET ltr == st.d.l2r
        wide == (st.botf - st.topf) # 1
    IN  FMLoop(FMStep(st, fw, toward3p, wide,
                      StepRanges(ltr,
                                 IF ltr THEN st.topb ELSE st.topf,
                                 IF ltr THEN st.botb ELSE st.botf,
                                 IF ltr THEN st.topf ELSE st.topb,
                                 IF ltr THEN st.botf ELSE st.botb, wide)),
               fw, toward3p)

\* the loop, unless the root part already failed or reached the end
\* a followMatches that stops after the root part
FMLoopFromNone(s1, fw, toward3p) == s1

FMLoopFrom(s1, fw, toward3p) ==
    IF s1.retFalse \/ s1.done \/ s1.hitEnd THEN s1 ELSE FMLoop(s1, fw, toward3p)

\* the root part and the loop of followMatches on descent id
FMScan(m, id) ==
    LET d0 == Dsc(m, id)
        fw == roots[d0.rid + 1].fw
        l2r == FMDir(d0, fw)
        toward3p == (l2r = fw)
        off5p_i == FMStart(d0, toward3p)
        d1 == [d0 EXCEPT !.l2r = l2r, !.off5p_i = off5p_i]
        s0 == FMState(d1, m.pf, m.re, off5p_i, d0.topf, d0.botf, d0.topb, d0.botb)
    IN  FMLoopFrom(IF d0.parent = NoId THEN FMRoot(s0, fw, toward3p) ELSE s0,
                   fw, toward3p)

\* the end of followMatches: write back, report a full alignment
FMFinish(m, id, s2) ==
    LET d0 == Dsc(m, id)
        m1 == [m EXCEPT !.df[id + 1] = [s2.d EXCEPT !.nalloc = Len(s2.pf) - Len(m.pf)],
                        !.pf = s2.pf, !.re = s2.re,
                        !.log.checks = m.log.checks \o s2.checks,
                        !.log.matches = Append(m.log.matches,
                            [id |-> id, root |-> d0.parent = NoId, jump |-> s2.jump,
                             offs |-> s2.offs, off5p_i |-> s2.d.off5p_i,
                             succ |-> ~s2.retFalse, hitEnd |-> s2.hitEnd,
                             done |-> s2.done,
                             oks |-> [i \in 1..Len(s2.checks) |-> s2.checks[i].ok],
                             topf |-> s2.topf, botf |-> s2.botf,
                             topb |-> s2.topb, botb |-> s2.botb,
                             toward3p |-> (s2.d.l2r = roots[d0.rid + 1].fw)])]
        m2 == IF s2.done /\ ~s2.retFalse
              THEN [m1 EXCEPT
                      !.sink = reportAlignment(m1.sink, m1.df, s2.topf, s2.botf,
                                   s2.topb, s2.botb, id, d0.rid, NoEdit, d0.pen),
                      !.log.reports = Append(m1.log.reports,
                            [id |-> id, al5pi |-> s2.d.al5pi, al5pf |-> s2.d.al5pf,
                             topf |-> s2.topf, botf |-> s2.botf,
                             topb |-> s2.topb, botb |-> s2.botb,
                             pen |-> d0.pen, by |-> "followMatches", rid |-> d0.rid,
                             fresh |-> Len(reportAlignment(m1.sink, m1.df, s2.topf,
                                           s2.botf, s2.topb, s2.botb, id, d0.rid,
                                           NoEdit, d0.pen)) > Len(m1.sink)])]
              ELSE m1
        bounceable == ~s2.retFalse /\ s2.hitEnd /\ ~s2.done
    IN  [m |-> m2, succ |-> ~s2.retFalse,
         hitEnd |-> s2.hitEnd, done |-> s2.done, branches |-> s2.branches,
         topf |-> IF bounceable THEN s2.topf ELSE 0,
         botf |-> IF bounceable THEN s2.botf ELSE 0,
         topb |-> IF bounceable THEN s2.topb ELSE 0,
         botb |-> IF bounceable THEN s2.botb ELSE 0]

\* Descent::followMatches on descent id: the new state, the return value
\* (succ) and the outputs hitEnd, done and the bounce range
followMatches(m, id) == FMFinish(m, id, FMScan(m, id))


(***************************************************************************)
(* recalcOutgoing                                                          *)
(***************************************************************************)
BaseSeq == <<0, 1, 2, 3>>

\* the members of S in ascending order (the order of for(j = 0; j < 4; j++))
InOrder(S) == LET In(j) == j \in S IN SelectSeq(BaseSeq, In)

RECURSIVE UpdateAll(_, _)
\* out_.update(edge) for each edge of es in turn
UpdateAll(out, es) ==
    IF es = <<>> THEN out ELSE UpdateAll(update(out, Head(es)), Tail(es))

\* DescentEdge::updateFlags: mark the edge's transition as explored
updateFlags(pfa, edge) ==
    LET p == PfGet(pfa, edge.posFlag)
        j == edge.e.chr
    IN  IF isReadGap(edge.e) THEN PfSet(pfa, edge.posFlag, [p EXCEPT !.rdg[j] = TRUE])
        ELSE IF isRefGap(edge.e) THEN PfSet(pfa, edge.posFlag, [p EXCEPT !.rfg = TRUE])
        ELSE PfSet(pfa, edge.posFlag, [p EXCEPT !.mm[j] = TRUE])

RECURSIVE UpdateFlagsAll(_, _)
UpdateFlagsAll(pfa, out) ==
    IF out = <<>> THEN pfa
    ELSE UpdateFlagsAll(updateFlags(pfa, Head(out)), Tail(out))

\* a budget test that turns away an edit that uses up the budget exactly
strictBudget(cost, diff) == cost < diff

\* a budget test that lets an edit overshoot the budget
looseBudget(cost, diff) == cost <= diff + 2

\* the budget test of recalcOutgoing: an edit of this cost fits in what is
\* left of cons[depth]
withinBudget(cost, diff) == cost <= diff

\* a test that entertains edits only past the no-branch depth
editsOpenDeep(p, diff, depth) == ~exhausted(p) /\ diff > 0 /\ depth >= nobranchDepth

\* the test that opens a position to edits: some transition is unexplored
\* and some budget is left, at whatever depth
editsOpen(p, diff, depth) == ~exhausted(p) /\ diff > 0

\* a gap barrier that guards the 5' end only
gapsAllowed5p(off5p, off3p) == off5p >= sc.gapbar

\* gapsAllowed: the position is at least gapbar away from both ends
gapsAllowedAt(off5p, off3p) == off5p >= sc.gapbar /\ off3p >= sc.gapbar

\* the body of recalcOutgoing's while loop at one position: the edges it
\* emits, in order, and the position record with the flags it claimed.
\* ls = [off5p, off3p, depth, d, cur5pi, cur5pf, top, bot, topp, botp]
\* a gap that is charged the open penalty wherever it is
gapCostOpen(ex, exPen, opPen) == opPen

\* the penalty of a gap edge: the extend penalty where the gap extends the
\* incoming gap of the descent, the open penalty elsewhere
gapCost(ex, exPen, opPen) == IF ex THEN exPen ELSE opPen

RecalcAt(dsc, fw, rootpri, cons, rd, pfa, ls) ==
    LET p == PfGet(pfa, ls.d)
        l2r == dsc.l2r
        toward3p == (l2r = fw)
        t == IF l2r THEN p.topb ELSE p.topf
        b == IF l2r THEN p.botb ELSE p.botf
        c == getc(q, ls.off5p, fw)
        diff == cons[ls.depth] - dsc.pen
        open == editsOpen(p, diff, ls.depth)
        span == ls.cur5pf - ls.cur5pi + 1 + dsc.gapadd
        \* mismatches
        mmJ == IF open /\ withinBudget(sc.mm, diff)
               THEN {j \in Bases : j # c /\ b[j] > t[j] /\ ~p.mm[j]}
               ELSE {}
        mmOk == {j \in mmJ :
                   ~contains(rd, RedKey(fw, ls.cur5pi, ls.cur5pf, span,
                                        p.topf[j], p.botf[j]), dsc.pen + sc.mm)}
        mmEdge(j) ==
            DescentEdge(Edit(ls.off5p, j, c, "mm"), ls.off5p,
                        DescentPriority(dsc.pen + sc.mm, ls.depth, b[j] - t[j], rootpri),
                        ls.d)
        \* gaps
        gapsAllowed == open /\ gapsAllowedAt(ls.off5p, ls.off3p)
        totwidth == (b[0] - t[0]) + (b[1] - t[1]) + (b[2] - t[2]) + (b[3] - t[3])
        allmatch == (totwidth = b[c] - t[c])
        cur5pi_i == IF toward3p THEN ls.cur5pi ELSE ls.cur5pi + 1
        cur5pf_i == IF toward3p THEN ls.cur5pf - 1 ELSE ls.cur5pf
        atRoot == gapsAllowed /\ ls.off5p = dsc.off5p_i /\ inited(dsc.edit)
        rdex == atRoot /\ withinBudget(sc.rdgEx, diff) /\ isReadGap(dsc.edit)
        rfex == atRoot /\ withinBudget(sc.rfgEx, diff) /\ isRefGap(dsc.edit)
        rdop == gapsAllowed /\ ~allmatch /\ withinBudget(sc.rdgOp, diff) /\ ~rdex
        rfop == gapsAllowed /\ ~allmatch /\ withinBudget(sc.rfgOp, diff) /\ ~rfex
        pen_rdg == gapCost(rdex, sc.rdgEx, sc.rdgOp)
        pen_rfg == gapCost(rfex, sc.rfgEx, sc.rfgOp)
        rdgJ == IF rdex \/ rdop
                THEN {j \in Bases : b[j] > t[j] /\ ~p.rdg[j]}
                ELSE {}
        rdgOk == {j \in rdgJ :
                    ~contains(rd, RedKey(fw, cur5pi_i, cur5pf_i, span,
                                         p.topf[j], p.botf[j]), dsc.pen + pen_rdg)}
        rdgEdge(j) ==
            DescentEdge(Edit(ls.off5p + (IF l2r THEN 0 ELSE 1), j, 0 - 1, "rdg"),
                        ls.off5p,
                        DescentPriority(dsc.pen + pen_rdg, ls.depth, b[j] - t[j], rootpri),
                        ls.d)
        rfgClaim == (rfex \/ rfop) /\ ~p.rfg
        rtopf == IF l2r THEN ls.topp ELSE ls.top
        rbotf == IF l2r THEN ls.botp ELSE ls.bot
        nrefal == ls.cur5pf - ls.cur5pi + dsc.gapadd
        rfgOk == rfgClaim
                 /\ ~contains(rd, RedKey(fw, ls.cur5pi, ls.cur5pf, nrefal, rtopf, rbotf),
                              dsc.pen + pen_rfg)
        rfgEdge ==
            DescentEdge(Edit(ls.off5p, 0 - 1, c, "rfg"), ls.off5p,
                        DescentPriority(dsc.pen + pen_rfg, ls.depth, ls.bot - ls.top, rootpri),
                        ls.d)
        mmEs == [i \in 1..Len(InOrder(mmOk)) |-> mmEdge(InOrder(mmOk)[i])]
        rdgEs == [i \in 1..Len(InOrder(rdgOk)) |-> rdgEdge(InOrder(rdgOk)[i])]
        rfgEs == IF rfgOk THEN <<rfgEdge>> ELSE <<>>
        gapEs == IF rfex THEN rfgEs \o rdgEs ELSE rdgEs \o rfgEs
        ask(key, pen, type, j) ==
            [key |-> key, pen |-> pen, hit |-> contains(rd, key, pen),
             id |-> dsc.descid, off5p |-> ls.off5p, type |-> type, chr |-> j]
        asked ==
            {ask(RedKey(fw, ls.cur5pi, ls.cur5pf, span, p.topf[j], p.botf[j]),
                 dsc.pen + sc.mm, "mm", j) : j \in mmJ}
            \cup {ask(RedKey(fw, cur5pi_i, cur5pf_i, span, p.topf[j], p.botf[j]),
                      dsc.pen + pen_rdg, "rdg", j) : j \in rdgJ}
            \cup (IF rfgClaim
                  THEN {ask(RedKey(fw, ls.cur5pi, ls.cur5pf, nrefal, rtopf, rbotf),
                            dsc.pen + pen_rfg, "rfg", 0 - 1)}
                  ELSE {})
    IN  [edges |-> mmEs \o gapEs,
         asked |-> asked,
         pos |-> [p EXCEPT !.mm = [j \in Bases |-> p.mm[j] \/ j \in mmJ],
                           !.rdg = [j \in Bases |-> p.rdg[j] \/ j \in rdgJ],
                           !.rfg = p.rfg \/ rfgClaim],
         t |-> t, b |-> b,
         tp |-> IF l2r THEN p.topf ELSE p.topb,
         bp |-> IF l2r THEN p.botf ELSE p.botb,
         c |-> c,
         gate |-> [depth |-> ls.depth, pen |-> dsc.pen, cons |-> cons[ls.depth],
                   exh |-> exhausted(p),
                   gapsOK |-> gapsAllowedAt(ls.off5p, ls.off3p),
                   allmatch |-> allmatch,
                   id |-> dsc.descid, off5p |-> ls.off5p, d |-> ls.d,
                   alt |-> \E j \in Bases : j # c /\ b[j] > t[j],
                   first |-> ls.off5p = dsc.off5p_i, edit |-> dsc.edit.type,
                   mm |-> open /\ withinBudget(sc.mm, diff),
                   rdex |-> rdex, rfex |-> rfex, rdop |-> rdop, rfop |-> rfop]]

\* a loop that moves to the next position without counting its depth
RecalcAdvanceFlat(toward3p, ls, r) ==
    [off5p |-> IF toward3p THEN ls.off5p + 1 ELSE ls.off5p - 1,
     off3p |-> IF toward3p THEN ls.off3p - 1 ELSE ls.off3p + 1,
     depth |-> ls.depth,
     d |-> ls.d + 1,
     cur5pi |-> IF toward3p THEN ls.cur5pi ELSE ls.cur5pi - 1,
     cur5pf |-> IF toward3p THEN ls.cur5pf + 1 ELSE ls.cur5pf,
     top |-> r.t[r.c], bot |-> r.b[r.c],
     topp |-> r.tp[r.c], botp |-> r.bp[r.c]]

\* the loop state of the next position, r what RecalcAt found at this one
RecalcAdvance(toward3p, ls, r) ==
    [off5p |-> IF toward3p THEN ls.off5p + 1 ELSE ls.off5p - 1,
     off3p |-> IF toward3p THEN ls.off3p - 1 ELSE ls.off3p + 1,
     depth |-> ls.depth + 1,
     d |-> ls.d + 1,
     cur5pi |-> IF toward3p THEN ls.cur5pi ELSE ls.cur5pi - 1,
     cur5pf |-> IF toward3p THEN ls.cur5pf + 1 ELSE ls.cur5pf,
     top |-> r.t[r.c], bot |-> r.b[r.c],
     topp |-> r.tp[r.c], botp |-> r.bp[r.c]]

RecalcAcc(acc, ls, r) ==
    [pf |-> PfSet(acc.pf, ls.d, r.pos), edges |-> acc.edges \o r.edges,
     scans |-> Append(acc.scans, r.gate), asked |-> acc.asked \cup r.asked,
     next |-> r]

RECURSIVE RecalcLoop(_, _, _, _, _, _, _)
\* what follows one position of the loop: stop at the end of the read
RecalcNext(dsc, fw, rootpri, cons, rd, acc1, ls) ==
    LET toward3p == (dsc.l2r = fw)
    IN  IF (toward3p /\ ls.off3p = 0) \/ (~toward3p /\ ls.off5p = 0)
        THEN acc1
        ELSE RecalcLoop(dsc, fw, rootpri, cons, rd, acc1,
                        RecalcAdvance(toward3p, ls, acc1.next))

\* recalcOutgoing's while loop; acc = [pf, edges, scans, next]
RecalcLoop(dsc, fw, rootpri, cons, rd, acc, ls) ==
    LET extrai == IF ~(dsc.l2r = fw) /\ dsc.al5pi > 0 THEN 1 ELSE 0
        extraf == IF (dsc.l2r = fw) /\ dsc.al5pf < QLen - 1 THEN 1 ELSE 0
    IN
    IF ~(ls.off5p >= dsc.al5pi - extrai /\ ls.off5p <= dsc.al5pf + extraf)
    THEN acc
    ELSE RecalcNext(dsc, fw, rootpri, cons, rd,
                    RecalcAcc(acc, ls, RecalcAt(dsc, fw, rootpri, cons, rd, acc.pf, ls)),
                    ls)

\* the loop of recalcOutgoing on descent id, from its first position
RecalcScan(m, id) ==
    LET dsc == Dsc(m, id)
        root == roots[dsc.rid + 1]
        fw == root.fw
        toward3p == (dsc.l2r = fw)
        off5p == dsc.off5p_i
        ls0 == [off5p |-> off5p, off3p |-> QLen - off5p - 1,
                depth |-> IF toward3p THEN off5p - dsc.al5pi ELSE dsc.al5pf - off5p,
                d |-> dsc.posid,
                cur5pi |-> IF toward3p THEN dsc.al5pi ELSE off5p,
                cur5pf |-> IF toward3p THEN off5p ELSE dsc.al5pf,
                top |-> IF dsc.l2r THEN dsc.topb ELSE dsc.topf,
                bot |-> IF dsc.l2r THEN dsc.botb ELSE dsc.botf,
                topp |-> IF dsc.l2r THEN dsc.topf ELSE dsc.topb,
                botp |-> IF dsc.l2r THEN dsc.botf ELSE dsc.botb]
    IN  RecalcLoop(dsc, fw, root.pri, root.cons, m.re,
                   [pf |-> m.pf, edges |-> <<>>, scans |-> <<>>, asked |-> {},
                    next |-> 0], ls0)

\* the end of recalcOutgoing: rank the edges, mark the ranked ones
\* a recalcOutgoing that records the keys it asked about and did not find
RecalcRankRecord(m, id, acc, out) ==
    LET dsc == Dsc(m, id)
        nout == Len(acc.edges)
    IN  [m EXCEPT
           !.df[id + 1] = [dsc EXCEPT !.out = out, !.lastRecalc = (nout <= 5)],
           !.pf = UpdateFlagsAll(acc.pf, out),
           !.re = m.re \cup {[key |-> x.key, pen |-> x.pen] :
                                x \in {y \in acc.asked : ~y.hit}},
           !.log.scanned = m.log.scanned \o acc.scans,
           !.log.queries = m.log.queries \cup acc.asked,
           !.log.emitted = m.log.emitted \o
               [i \in 1..nout |-> [id |-> id, rid |-> dsc.rid, edge |-> acc.edges[i],
                                   pen |-> dsc.pen, al5pi |-> dsc.al5pi, al5pf |-> dsc.al5pf,
                                   l2r |-> dsc.l2r]]]

RecalcRank(m, id, acc, out) ==
    LET dsc == Dsc(m, id)
        nout == Len(acc.edges)
    IN  [m EXCEPT
           !.df[id + 1] = [dsc EXCEPT !.out = out, !.lastRecalc = (nout <= 5)],
           !.pf = UpdateFlagsAll(acc.pf, out),
           !.log.scanned = m.log.scanned \o acc.scans,
           !.log.queries = m.log.queries \cup acc.asked,
           !.log.emitted = m.log.emitted \o
               [i \in 1..nout |-> [id |-> id, rid |-> dsc.rid, edge |-> acc.edges[i],
                                   pen |-> dsc.pen, al5pi |-> dsc.al5pi, al5pf |-> dsc.al5pf,
                                   l2r |-> dsc.l2r]]]

RecalcFinish(m, id, acc) ==
    RecalcRank(m, id, acc, UpdateAll(Dsc(m, id).out, acc.edges))

\* Descent::recalcOutgoing on descent id
recalcOutgoing(m, id) == RecalcFinish(m, id, RecalcScan(m, id))


(***************************************************************************)
(* Descent::init (both forms), bounce, followBestOutgoing                  *)
(***************************************************************************)
\* a Descent as EFactory::alloc leaves it, before init
BlankDescent ==
    [inited |-> FALSE, rid |-> 0, al5pi |-> 0, al5pf |-> 0, l2r |-> TRUE,
     topf |-> 0, botf |-> 0, topb |-> 0, botb |-> 0,
     descid |-> NoId, parent |-> NoId, pen |-> 0, posid |-> NoId, len |-> 0,
     out |-> <<>>, edit |-> NoEdit, lastRecalc |-> TRUE, gapadd |-> 0,
     off5p_i |-> 0, nalloc |-> 0]

\* EFactory::alloc on the descent arena
AllocDescent(m) == [m EXCEPT !.df = Append(m.df, BlankDescent)]

\* EFactory::resize on both arenas
Rollback(m, dfsz, pfsz) ==
    [m EXCEPT !.df = SubSeq(m.df, 1, dfsz), !.pf = SubSeq(m.pf, 1, pfsz)]

\* Descent::empty
empty(d) == d.out = <<>>

LogInit(m, id, stage) ==
    LET d == Dsc(m, id)
    IN  [m EXCEPT !.log.inits = Append(m.log.inits,
            [id |-> id, stage |-> stage, rid |-> d.rid, pen |-> d.pen,
             al5pi |-> d.al5pi, al5pf |-> d.al5pf, parent |-> d.parent,
             edit |-> d.edit.type, dfsz |-> Len(m.df), pfsz |-> Len(m.pf),
             l2r |-> d.l2r, gapadd |-> d.gapadd, topf |-> d.topf,
             botf |-> d.botf, topb |-> d.topb, botb |-> d.botb])]

\* an insertion that puts the descent on the heap twice
InsertDescentTwice(m, id) ==
    LET d == Dsc(m, id)
    IN  [m EXCEPT !.heap = HeapInsert(HeapInsert(m.heap, bestPri(d.out), id),
                                      bestPri(d.out), id),
                  !.log.inserted = Append(m.log.inserted,
                      [id |-> id, pri |-> bestPri(d.out), parent |-> d.parent,
                       topf |-> d.topf,
                       botf |-> d.botf, topb |-> d.topb, botb |-> d.botb])]

\* heap.insert(make_pair(out_.bestPri(), descid))
InsertDescent(m, id) ==
    LET d == Dsc(m, id)
    IN  [m EXCEPT !.heap = HeapInsert(m.heap, bestPri(d.out), id),
                  !.log.inserted = Append(m.log.inserted,
                      [id |-> id, pri |-> bestPri(d.out), parent |-> d.parent,
                       topf |-> d.topf,
                       botf |-> d.botf, topb |-> d.topb, botb |-> d.botb])]

RECURSIVE InitRun(_, _)
RECURSIVE bounce(_, _, _, _, _, _)

\* Descent::init, branch form: descent id was just allocated
\* an init that hands the parent's gapadd on whatever the incoming edit
InitBranchSameGapadd(m, id, rid, al5pi, al5pf, topf, botf, topb, botb, l2r, parent, pen, e) ==
    LET d == [BlankDescent EXCEPT
                !.inited = TRUE, !.rid = rid, !.al5pi = al5pi, !.al5pf = al5pf,
                !.l2r = l2r, !.topf = topf, !.botf = botf, !.topb = topb,
                !.botb = botb, !.descid = id, !.parent = parent, !.pen = pen,
                !.edit = e, !.gapadd = Dsc(m, parent).gapadd]
    IN  InitRun(LogInit(SetDsc(m, id, d), id, "init"), id)

InitBranch(m, id, rid, al5pi, al5pf, topf, botf, topb, botb, l2r, parent, pen, e) ==
    LET gap0 == Dsc(m, parent).gapadd
        d == [BlankDescent EXCEPT
                !.inited = TRUE, !.rid = rid, !.al5pi = al5pi, !.al5pf = al5pf,
                !.l2r = l2r, !.topf = topf, !.botf = botf, !.topb = topb,
                !.botb = botb, !.descid = id, !.parent = parent, !.pen = pen,
                !.edit = e,
                !.gapadd = IF isReadGap(e) THEN gap0 + 1
                           ELSE IF isRefGap(e) THEN gap0 - 1 ELSE gap0]
    IN  InitRun(LogInit(SetDsc(m, id, d), id, "init"), id)

\* Descent::init, root form
InitRoot(m, id, rid) ==
    LET d == [BlankDescent EXCEPT
                !.inited = TRUE, !.rid = rid,
                !.al5pi = roots[rid + 1].off5p, !.al5pf = roots[rid + 1].off5p,
                !.l2r = roots[rid + 1].l2r, !.descid = id]
    IN  InitRun(LogInit(SetDsc(m, id, d), id, "init"), id)

\* a caller that gives back the descents of a failed init but keeps the
\* position records
RollbackDescentsUnless(r, dfsz, pfsz) ==
    IF r.succ THEN r.m
    ELSE [r.m EXCEPT
            !.df = SubSeq(r.m.df, 1, dfsz),
            !.log.rollbacks = Append(r.m.log.rollbacks,
                [dfsz |-> dfsz, pfsz |-> pfsz,
                 df |-> dfsz, pf |-> Len(r.m.pf),
                 dfWas |-> Len(r.m.df), pfWas |-> Len(r.m.pf),
                 ids |-> {r.m.heap[i].id : i \in 1..Len(r.m.heap)}])]

\* EFactory::resize of both arenas when the init r = [m, succ] failed
\* a caller that gives back one position record more than the failed init
\* allocated
RollbackDeepUnless(r, dfsz, pfsz) ==
    IF r.succ THEN r.m
    ELSE [r.m EXCEPT
            !.df = SubSeq(r.m.df, 1, dfsz),
            !.pf = SubSeq(r.m.pf, 1, IF pfsz > 0 THEN pfsz - 1 ELSE 0),
            !.log.rollbacks = Append(r.m.log.rollbacks,
                [dfsz |-> dfsz, pfsz |-> pfsz,
                 df |-> dfsz, pf |-> IF pfsz > 0 THEN pfsz - 1 ELSE 0,
                 dfWas |-> Len(r.m.df), pfWas |-> Len(r.m.pf),
                 ids |-> {r.m.heap[i].id : i \in 1..Len(r.m.heap)}])]

RollbackUnless(r, dfsz, pfsz) ==
    IF r.succ THEN r.m
    ELSE [Rollback(r.m, dfsz, pfsz) EXCEPT
            !.log.rollbacks = Append(r.m.log.rollbacks,
                [dfsz |-> dfsz, pfsz |-> pfsz,
                 df |-> Len(Rollback(r.m, dfsz, pfsz).df),
                 pf |-> Len(Rollback(r.m, dfsz, pfsz).pf),
                 dfWas |-> Len(r.m.df), pfWas |-> Len(r.m.pf),
                 ids |-> {r.m.heap[i].id : i \in 1..Len(r.m.heap)}])]

\* an init that reports success whatever it found
InitFinishTrue(id, fm, bo, m2) ==
    LET m3 == IF fm.succ /\ ~empty(Dsc(m2, id)) THEN InsertDescent(m2, id) ELSE m2
    IN  [m |-> [m3 EXCEPT !.log.returns = Append(m3.log.returns,
                    [id |-> id, succ |-> TRUE, nout |-> Len(Dsc(m3, id).out),
                     onHeap |-> \E i \in 1..Len(m3.heap) : m3.heap[i].id = id,
                     dfsz |-> Len(m3.df)])],
         succ |-> TRUE,
         matchSucc |-> fm.succ, bounceSucc |-> bo.succ]

\* the end of init: heap insertion and the return value
InitFinish(id, fm, bo, m2) ==
    LET m3 == IF fm.succ /\ ~empty(Dsc(m2, id)) THEN InsertDescent(m2, id) ELSE m2
        succ == ~empty(Dsc(m3, id)) \/ bo.succ
    IN  [m |-> [m3 EXCEPT !.log.returns = Append(m3.log.returns,
                    [id |-> id, succ |-> succ, nout |-> Len(Dsc(m3, id).out),
                     onHeap |-> \E i \in 1..Len(m3.heap) : m3.heap[i].id = id,
                     dfsz |-> Len(m3.df)])],
         succ |-> succ,
         matchSucc |-> fm.succ, bounceSucc |-> bo.succ]

\* init after the bounce bo = [m, succ]: recalcOutgoing if matching succeeded
InitAfterBounce(id, fm, bo) ==
    InitFinish(id, fm, bo, IF fm.succ THEN recalcOutgoing(bo.m, id) ELSE bo.m)

\* init after followMatches returned fm: bounce if it hit one end only
InitAfterMatch(id, fm) ==
    InitAfterBounce(id, fm,
        IF fm.hitEnd /\ ~fm.done
        THEN bounce(LogInit(fm.m, id, "matched"), id, fm.topf, fm.botf, fm.topb, fm.botb)
        ELSE [m |-> LogInit(fm.m, id, "matched"), succ |-> FALSE])

\* the common tail of both forms of init: followMatches, bounce,
\* recalcOutgoing, heap insertion; [m, succ]
InitRun(m, id) == InitAfterMatch(id, followMatches(m, id))

\* the end of bounce: r is what the child's init returned
BounceResult(r, dfsz, pfsz) ==
    [m |-> RollbackUnless(r, dfsz, pfsz), succ |-> r.succ]

\* a bounce that never creates the descent going the other way
bounceNever(m, id, topf, botf, topb, botb) == [m |-> m, succ |-> FALSE]

\* Descent::bounce on descent id; [m, succ]
bounce(m, id, topf, botf, topb, botb) ==
    LET d == Dsc(m, id)
        dfsz == Len(m.df)
        pfsz == Len(m.pf)
        m1 == [AllocDescent(m) EXCEPT
                 !.log.bounces = Append(m.log.bounces,
                     [parent |-> id, child |-> dfsz, topf |-> topf, botf |-> botf,
                      topb |-> topb, botb |-> botb])]
    IN  BounceResult(InitBranch(m1, dfsz, d.rid, d.al5pi, d.al5pf, topf, botf, topb,
                                botb, ~d.l2r, id, d.pen, NoEdit), dfsz, pfsz)

\* an edge that takes its offset into the aligned stretch whatever its edit
EdgeEndFlat(e, edoff, step) == edoff

\* an edge that leaves the character at its offset unaligned whatever its edit
EdgeEndBack(e, edoff, step) == edoff - step

\* the extreme of the aligned stretch after following edge e: a read gap
\* leaves the read character at the edge's offset unaligned
EdgeEnd(e, edoff, step) == IF isReadGap(e.e) THEN edoff - step ELSE edoff

\* what following edge e out of descent id (state m1) leads to
FBOTarget(m1, id, e) ==
    LET d == Dsc(m1, id)
        fw == roots[d.rid + 1].fw
        toward3p == (d.l2r = fw)
        edoff == e.off5p
        al5pf_new == IF toward3p THEN EdgeEnd(e, edoff, 1) ELSE d.al5pf
        al5pi_new == IF toward3p THEN d.al5pi ELSE EdgeEnd(e, edoff, 0 - 1)
        hitEnd == IF toward3p THEN al5pf_new = QLen - 1 ELSE al5pi_new = 0
        done == hitEnd /\ al5pi_new = 0 /\ al5pf_new = QLen - 1
        doff == IF toward3p THEN edoff - d.off5p_i ELSE d.off5p_i - edoff
        dd == d.posid + doff
        own == isRefGap(e.e) /\ doff = 0
        p == PfGet(m1.pf, IF isRefGap(e.e) THEN dd - 1 ELSE dd)
        chr == IF isRefGap(e.e) THEN p.c ELSE e.e.chr
    IN  [al5pi |-> al5pi_new, al5pf |-> al5pf_new, hitEnd |-> hitEnd, done |-> done,
         l2r |-> IF ~done /\ hitEnd THEN ~d.l2r ELSE d.l2r,
         topf |-> IF own THEN d.topf ELSE p.topf[chr],
         botf |-> IF own THEN d.botf ELSE p.botf[chr],
         topb |-> IF own THEN d.topb ELSE p.topb[chr],
         botb |-> IF own THEN d.botb ELSE p.botb[chr]]

\* followBestOutgoing, the full alignment reported from the edge itself
FBOReport(m2, id, e, best, t) ==
    [m2 EXCEPT
       !.sink = reportAlignment(m2.sink, m2.df, t.topf, t.botf, t.topb, t.botb,
                                id, Dsc(m2, id).rid, e.e, best.pen),
       !.log.reports = Append(m2.log.reports,
           [id |-> id, al5pi |-> t.al5pi, al5pf |-> t.al5pf,
            topf |-> t.topf, botf |-> t.botf, topb |-> t.topb, botb |-> t.botb,
            pen |-> best.pen, by |-> "followBestOutgoing", rid |-> Dsc(m2, id).rid,
            fresh |-> Len(reportAlignment(m2.sink, m2.df, t.topf, t.botf, t.topb,
                          t.botb, id, Dsc(m2, id).rid, e.e, best.pen)) > Len(m2.sink)])]

\* followBestOutgoing, the child descent: r is what its init returned
FBOChild(id, r, dfsz, pfsz) ==
    LET m3 == RollbackUnless(r, dfsz, pfsz)
        m5 == IF ~empty(Dsc(m3, id)) THEN InsertDescent(m3, id) ELSE m3
    IN  [m |-> m5, outcome |-> IF r.succ THEN "child" ELSE "rolledback"]

\* a followBestOutgoing whose child starts again from penalty 0
FBOBranchFree(m1, id, e, best, t) ==
    IF t.done
    THEN [m |-> FBOReport(AllocDescent(m1), id, e, best, t), outcome |-> "reported"]
    ELSE FBOChild(id,
                  InitBranch(AllocDescent(m1), Len(m1.df), Dsc(m1, id).rid,
                             t.al5pi, t.al5pf, t.topf, t.botf, t.topb, t.botb,
                             t.l2r, id, 0, e.e),
                  Len(m1.df), Len(m1.pf))

\* followBestOutgoing from the allocation of the new descent on
FBOBranch(m1, id, e, best, t) ==
    IF t.done
    THEN [m |-> FBOReport(AllocDescent(m1), id, e, best, t), outcome |-> "reported"]
    ELSE FBOChild(id,
                  InitBranch(AllocDescent(m1), Len(m1.df), Dsc(m1, id).rid,
                             t.al5pi, t.al5pf, t.topf, t.botf, t.topb, t.botb,
                             t.l2r, id, best.pen, e.e),
                  Len(m1.df), Len(m1.pf))

\* followBestOutgoing after the rotation (and the recalculation, if any)
FBOAfterRecalc(m1, id, e, best, redo) ==
    IF redo /\ empty(Dsc(m1, id))
    THEN [m |-> m1, outcome |-> "dropped"]
    ELSE FBOBranch(m1, id, e, best, FBOTarget(m1, id, e))

FBOLog(m, id, e, r) ==
    [r.m EXCEPT !.log.followed = [id |-> id, edge |-> e, outcome |-> r.outcome,
                                 dfsz |-> Len(m.df), pfsz |-> Len(m.pf)]]

\* Descent::followBestOutgoing on descent id (just popped from the heap)
followBestOutgoing(m, id) ==
    LET d0 == Dsc(m, id)
        best == bestPri(d0.out)
        rot == rotate(d0.out)
        m0 == SetDsc(m, id, [d0 EXCEPT !.out = rot.out])
        redo == rot.out = <<>> /\ ~d0.lastRecalc
    IN  FBOLog(m, id, rot.edge,
               FBOAfterRecalc(IF redo THEN recalcOutgoing(m0, id) ELSE m0,
                              id, rot.edge, best, redo))


(***************************************************************************)
(* The inputs explored                                                     *)
(***************************************************************************)
MinReadLen == 3
MaxReadLen == 4
MaxRoots == 2

\* the reads: every sequence of A and T of the lengths explored, and longer
\* reads that differ from the reference by one gap, after the fixtures of main()
ReadBases == {0, 3}
GapReads ==
    {<<3, 3, 0, 0, 3, 3>>, <<1, 0, 2, 3, 0, 0>>, <<0, 1, 2, 2>>,
     <<3, 0, 2, 1>>, <<0, 1, 2, 2, 2, 0>>}
Reads == UNION {[1..n -> ReadBases] : n \in MinReadLen..MaxReadLen} \cup GapReads

\* DescentConfig::cons, SIMPLE_FUNC_LINEAR with constant 0 and slope k
Linear(k) == [d \in 0..(MaxReadLen + 4) |-> k * d]

\* Scoring: constant mismatch penalty, gap open/extend penalties, gapbar
Scoring(mm, rdgOp, rdgEx, rfgOp, rfgEx, gapbar) ==
    [mm |-> mm, rdgOp |-> rdgOp, rdgEx |-> rdgEx, rfgOp |-> rfgOp,
     rfgEx |-> rfgEx, gapbar |-> gapbar]

\* the index / config / scoring combinations explored
Setups ==
    {[ftab |-> 2, cons |-> Linear(1), sc |-> Scoring(3, 5, 3, 5, 3, 1)],
     [ftab |-> 2, cons |-> Linear(2), sc |-> Scoring(6, 2, 1, 2, 1, 1)],
     [ftab |-> 3, cons |-> Linear(1), sc |-> Scoring(1, 2, 1, 2, 1, 1)],
     [ftab |-> 3, cons |-> Linear(2), sc |-> Scoring(2, 2, 1, 3, 1, 0)],
     [ftab |-> 1, cons |-> Linear(1), sc |-> Scoring(2, 1, 1, 1, 1, 1)],
     [ftab |-> 4, cons |-> Linear(1), sc |-> Scoring(2, 3, 1, 3, 1, 1)]}

\* the k-th root of a root list grown from its first root r1: the other
\* strand, or the same strand from another offset in the other direction
RootVariant(r1, k, len) ==
    IF k = 1 THEN r1
    ELSE IF (k = 2) = r1.l2r THEN [r1 EXCEPT !.fw = ~r1.fw, !.pri = k - 1]
    ELSE [r1 EXCEPT !.off5p = (r1.off5p + k - 1) % len, !.l2r = ~r1.l2r,
                    !.pri = k - 1]

\* a second root that covers the stretch of the first root's ftab jump from
\* the other end of it, F the width of the table
MirrorRoot(r1, F) ==
    [r1 EXCEPT !.off5p = IF r1.l2r = r1.fw THEN r1.off5p + (F - 1)
                                           ELSE r1.off5p - (F - 1),
               !.l2r = ~r1.l2r, !.pri = 1]

\* the root lists grown from a first root r1 for a read of len characters
RootLists(r1, len, F) ==
    {[k \in 1..n |-> RootVariant(r1, k, len)] : n \in 1..MaxRoots}
    \cup {<<r1, MirrorRoot(r1, F)>> : x \in
             {y \in {F} : y > 1 /\ MirrorRoot(r1, y).off5p \in 0..(len - 1)}}

FirstRoots(rd, cons) ==
    [off5p : 0..(Len(rd) - 1), l2r : BOOLEAN, fw : BOOLEAN, pri : {0}, cons : {cons}]

\* what the memory past the position arena may hold
\* a position record a search left behind: the step from the whole index
StalePos ==
    [ResetPos EXCEPT
        !.c = 0,
        !.topf = [c \in Bases |-> fchr[c]], !.botf = [c \in Bases |-> fchr[c + 1]],
        !.topb = [c \in Bases |-> fchr[c]], !.botb = [c \in Bases |-> fchr[c + 1]]]

\* what the memory past the position arena may hold
JunkSet == {ResetPos, StalePos}

EmptyLog ==
    [emitted |-> <<>>, reports |-> <<>>, inits |-> <<>>, inserted |-> <<>>,
     bounces |-> <<>>, scanned |-> <<>>, matches |-> <<>>, checks |-> <<>>,
     queries |-> {}, rollbacks |-> <<>>, returns |-> <<>>, popped |-> <<>>,
     followed |-> [id |-> NoId, edge |-> 0, outcome |-> "none", dfsz |-> 0, pfsz |-> 0]]

\* the mutable state of go() as one record, and back
Machine ==
    [df |-> df, pf |-> pf, heap |-> heap, re |-> re, sink |-> sink, log |-> EmptyLog]

Install(m, kind) ==
    /\ df' = m.df
    /\ pf' = m.pf
    /\ heap' = m.heap
    /\ re' = m.re
    /\ sink' = m.sink
    /\ last' = [kind |-> kind, log |-> m.log]

\* no call of go() before this one
NoRun == [trail |-> <<>>, sink |-> <<>>]

Init ==
    /\ q \in Reads
    /\ \E su \in Setups :
          /\ sc = su.sc
          /\ ftabChars = su.ftab
          /\ \E r1 \in FirstRoots(q, su.cons) :
                roots \in RootLists(r1, Len(q), su.ftab)
    /\ junk \in JunkSet
    /\ df = <<>>
    /\ pf = <<>>
    /\ heap = <<>>
    /\ re = {}
    /\ sink = <<>>
    /\ pc = [at |-> "root", i |-> 0, tick |-> 0, run |-> 1]
    /\ last = [kind |-> "none", log |-> EmptyLog]
    /\ trail = <<>>
    /\ prev = NoRun

(***************************************************************************)
(* DescentDriver::go                                                       *)
(***************************************************************************)
\* a loop test that ends go with descents still on the heap
heapGivenUp(h) == TRUE

\* the test of go's while loop: heap_.empty()
heapEmpty(h) == h = <<>>

\* the state after one iteration of either loop, m the new machine state
Step(m, kind, i) ==
    /\ Install(m, kind)
    /\ pc' = [at |-> IF i < Len(roots) THEN "root"
                      ELSE IF heapEmpty(m.heap) THEN "done" ELSE "drain",
              i |-> IF i < Len(roots) THEN i ELSE Len(roots),
              tick |-> 1 - pc.tick, run |-> pc.run]
    /\ UNCHANGED <<q, roots, sc, ftabChars, junk, prev>>

\* one iteration of the for loop over roots_
GoRoot ==
    /\ pc.at = "root"
    /\ Step(RollbackUnless(InitRoot(AllocDescent(Machine), Len(df), pc.i),
                           Len(df), Len(pf)),
            "root", pc.i + 1)
    /\ UNCHANGED trail

\* the entry EHeap::pop removes
HeapPop(m) ==
    [m |-> [m EXCEPT !.heap = RemoveAt(m.heap, HeapMinIdx(m.heap)),
                     !.log.popped = Append(m.log.popped,
                         [id |-> m.heap[HeapMinIdx(m.heap)].id,
                          pri |-> m.heap[HeapMinIdx(m.heap)].pri,
                          out |-> Dsc(m, m.heap[HeapMinIdx(m.heap)].id).out,
                          rest |-> {RemoveAt(m.heap, HeapMinIdx(m.heap))[i].pri :
                                      i \in 1..(Len(m.heap) - 1)},
                          edges |-> {Dsc(m, m.heap[HeapMinIdx(m.heap)].id).out[i].pri :
                                      i \in 1..Len(Dsc(m, m.heap[HeapMinIdx(m.heap)].id).out)}])],
     id |-> m.heap[HeapMinIdx(m.heap)].id]

FollowPopped(p) == followBestOutgoing(p.m, p.id)

\* one iteration of the while loop: pop and followBestOutgoing
GoPop ==
    /\ pc.at = "drain"
    /\ Step(FollowPopped(HeapPop(Machine)), "pop", Len(roots))
    /\ trail' = Append(trail, HeapPop(Machine).id)

\* the caller runs go() once more on the same read, roots, configs, scoring
\* and index, with fresh arenas, heap, redundancy checker and sink
Rerun ==
    /\ pc.at = "done"
    /\ pc.run = 1
    /\ prev' = [trail |-> trail, sink |-> sink]
    /\ junk' \in JunkSet
    /\ df' = <<>>
    /\ pf' = <<>>
    /\ heap' = <<>>
    /\ re' = {}
    /\ sink' = <<>>
    /\ trail' = <<>>
    /\ last' = [kind |-> "none", log |-> EmptyLog]
    /\ pc' = [at |-> "root", i |-> 0, tick |-> 1 - pc.tick, run |-> 2]
    /\ UNCHANGED <<q, roots, sc, ftabChars>>

Next == GoRoot \/ GoPop \/ Rerun

Spec == Init /\ [][Next]_vars

\* go() has not returned for the last time and its position moves on to the
\* next iteration
Advance ==
    /\ pc.at # "done" \/ pc.run = 1
    /\ pc' \in [at : {"root", "drain", "done"}, i : 0..MaxRoots, tick : {0, 1},
                run : {1, 2}]
    /\ pc'.tick # pc.tick

\* go() under the scheduling of a sequential program: until it returns, it
\* keeps running (every iteration of Next is an Advance step)
FairSpec == Spec /\ WF_pc(Advance)

(***************************************************************************)
(* Properties                                                              *)
(***************************************************************************)
Done == pc.at = "done"
Popped == last.kind = "pop"
OnHeap(id) == \E i \in 1..Len(heap) : heap[i].id = id
ConsOf(rid) == roots[rid + 1].cons

\* C1: go terminates: after finitely many iterations of its two loops the
\* heap is empty and go has returned
C1_GoTerminates == <>(Done /\ heap = <<>>)

\* a run that popped descents from the heap and then returned
C1_Witness == Done /\ Popped /\ heap = <<>> /\ Len(df) > 2

\* C2: after followBestOutgoing on a popped descent, whatever way the call
\* ended (the report of a full-length alignment included), the descent is on
\* the heap iff its ranker holds an edge
C2_ReinsertedIffEdges ==
    Popped =>
        (OnHeap(last.log.followed.id) <=> ~empty(df[last.log.followed.id + 1]))

\* C3: every edge recalcOutgoing emits at depth d has pen + cost <= cons[d],
\* and no candidate edit with pen + cost = cons[d] is turned away by the
\* budget test (mismatch, gap open, gap extension)
C3_EdgesWithinCons ==
    /\ \A i \in 1..Len(last.log.emitted) :
          LET x == last.log.emitted[i]
          IN  /\ x.edge.pri.pen <= ConsOf(x.rid)[x.edge.pri.depth]
              /\ x.edge.pri.pen > x.pen
    /\ \A i \in 1..Len(last.log.scanned) :
          LET g == last.log.scanned[i]
          IN  ~g.exh =>
                /\ (g.pen + sc.mm = g.cons => g.mm)
                /\ (g.gapsOK /\ g.first /\ g.edit = "rdg" /\ g.pen + sc.rdgEx = g.cons
                      => g.rdex)
                /\ (g.gapsOK /\ g.first /\ g.edit = "rfg" /\ g.pen + sc.rfgEx = g.cons
                      => g.rfex)
                /\ (g.gapsOK /\ ~g.allmatch /\ ~g.rdex /\ g.pen + sc.rdgOp = g.cons
                      => g.rdop)
                /\ (g.gapsOK /\ ~g.allmatch /\ ~g.rfex /\ g.pen + sc.rfgOp = g.cons
                      => g.rfop)

\* an edge emitted with pen + cost exactly cons[d]
C3_Witness ==
    \E i \in 1..Len(last.log.emitted) :
        LET x == last.log.emitted[i]
        IN  x.edge.pri.pen = ConsOf(x.rid)[x.edge.pri.depth]

\* C4: every descent, when constructed and after followMatches extended it,
\* has pen <= cons[al5pf - al5pi + 1]
C4_PenWithinCons ==
    \A i \in 1..Len(last.log.inits) :
        LET x == last.log.inits[i]
        IN  x.pen <= ConsOf(x.rid)[x.al5pf - x.al5pi + 1]

\* a step in which followMatches extended a child reached by a gap, and
\* whose penalty uses up cons[al5pf - al5pi + 1]
C4_Witness ==
    \E i \in 1..Len(last.log.inits) :
        LET x == last.log.inits[i]
        IN  /\ x.stage = "matched" /\ x.pen > 0 /\ x.edit \in {"rdg", "rfg"}
            /\ x.pen = ConsOf(x.rid)[x.al5pf - x.al5pi + 1]

\* C5: every descent inserted on the heap, roots included, has
\* botf - topf = botb - topb and that width is > 0
C5_InsertedNonEmptyRange ==
    \A i \in 1..Len(last.log.inserted) :
        LET x == last.log.inserted[i]
        IN  x.botf - x.topf = x.botb - x.topb /\ x.botf - x.topf > 0

(***************************************************************************)
(* What the reference holds for a read                                     *)
(***************************************************************************)
\* the places (1-based) where the read occurs in the reference
OccStarts(rd) ==
    {i \in 1..(RefLen - Len(rd) + 1) : SubSeq(Ref, i, i + Len(rd) - 1) = rd}
OccCount(rd) == Cardinality(OccStarts(rd))

\* <<i, k>>: the read equals the reference at i but for a substitution at
\* read position k (1-based)
SubsAt(rd) ==
    {ik \in (1..(RefLen - Len(rd) + 1)) \X (1..Len(rd)) :
        \A p \in 1..Len(rd) : (Ref[ik[1] + p - 1] = rd[p]) <=> (p # ik[2])}

\* <<i, g>>: the read equals the reference at i with the n reference bases
\* after the first g skipped (the read lacks n reference bases)
RdGapsAt(rd, n) ==
    {ig \in (1..RefLen) \X (1..(Len(rd) - 1)) :
        /\ ig[1] + Len(rd) + n - 1 <= RefLen
        /\ SubSeq(Ref, ig[1], ig[1] + ig[2] - 1)
             \o SubSeq(Ref, ig[1] + ig[2] + n, ig[1] + Len(rd) + n - 1) = rd}

\* <<i, g>>: the read without its n bases after the first g equals the
\* reference at i (the read has n extra bases)
RfGapsAt(rd, n) ==
    {ig \in (1..RefLen) \X (1..(Len(rd) - n - 1)) :
        /\ ig[1] + Len(rd) - n - 1 <= RefLen
        /\ SubSeq(rd, 1, ig[2]) \o SubSeq(rd, ig[2] + n + 1, Len(rd))
             = SubSeq(Ref, ig[1], ig[1] + Len(rd) - n - 1)}

GapKinds == {"rdg", "rfg"}
GapLens == 1..3
GapsAt(rd, kind, n) == IF kind = "rdg" THEN RdGapsAt(rd, n) ELSE RfGapsAt(rd, n)
GapPen(kind, n) ==
    IF kind = "rdg" THEN sc.rdgOp + (n - 1) * sc.rdgEx
    ELSE sc.rfgOp + (n - 1) * sc.rfgEx

Abs(x) == IF x < 0 THEN 0 - x ELSE x

\* the reference offsets (1-based) of the rows of a hit's forward range
RowsOf(h) == {SAFw[r] : r \in h.topf..(h.botf - 1)}

\* go returned from a search with one root, on the forward strand
OneFwRoot == Done /\ Len(roots) = 1 /\ roots[1].fw

\* the root's first position is read left to right (followMatches turns a
\* root around that starts at the end it faces)
RootL2R == IF roots[1].l2r THEN roots[1].off5p # QLen - 1 ELSE roots[1].off5p = 0

\* the read offsets the ftab jump of the root may cover
WinBeg ==
    IF RootL2R THEN roots[1].off5p
    ELSE IF roots[1].off5p < ftabChars THEN 0 ELSE roots[1].off5p - ftabChars
WinEnd == IF RootL2R THEN roots[1].off5p + ftabChars ELSE roots[1].off5p

(***************************************************************************)
(* C6                                                                      *)
(***************************************************************************)
ExactCase == OneFwRoot /\ OccCount(q) >= 1
ZeroHits == {i \in 1..Len(sink) : sink[i].pen = 0}

SubstCase ==
    /\ OneFwRoot
    /\ roots[1].cons = Linear(1)
    /\ sc.mm = 3
    /\ OccCount(q) = 0
    /\ Cardinality(SubsAt(q)) = 1
    /\ \A ik \in SubsAt(q) :
          /\ Abs(roots[1].off5p - (ik[2] - 1)) > 2
          /\ ~(WinBeg <= ik[2] - 1 /\ ik[2] - 1 <= WinEnd)

\* C7: in that case the sink ends with exactly one range of one element,
\* with the penalty of one mismatch, and its forward range is the row of the
\* place the read is one substitution away from, whatever the root's offset
\* and direction
C7_OneSubstitution ==
    SubstCase =>
        /\ nrange(sink) = 1
        /\ nelt(sink) = 1
        /\ sink[1].pen = sc.mm
        /\ \A ik \in SubsAt(q) : RowsOf(sink[1]) = {ik[1]}

\* such a search, the mismatch found exactly at the depth whose budget it
\* uses up
C7_Witness ==
    /\ SubstCase
    /\ \A ik \in SubsAt(q) : Abs(roots[1].off5p - (ik[2] - 1)) = sc.mm
    /\ nrange(sink) = 1

(***************************************************************************)
(* C8                                                                      *)
(***************************************************************************)
\* read offsets (0-based) of a gap after the first g read characters
GapOffs(kind, n, g) == IF kind = "rdg" THEN {g} ELSE g..(g + n - 1)

\* the only way to align the read with at most one substitution or one gap
\* of up to three bases is one gap of this kind and length n, at one place
OnlyGap(kind, n) ==
    /\ OccCount(q) = 0
    /\ SubsAt(q) = {}
    /\ Cardinality(GapsAt(q, kind, n)) = 1
    /\ \A k2 \in GapKinds : \A n2 \in GapLens :
          <<k2, n2>> # <<kind, n>> => GapsAt(q, k2, n2) = {}

GapOpen(kind) == IF kind = "rdg" THEN sc.rdgOp ELSE sc.rfgOp
GapExtend(kind) == IF kind = "rdg" THEN sc.rdgEx ELSE sc.rfgEx

\* the number of read characters aligned before the t-th base of the gap
\* is opened or extended, on the way from the root to the gap
GapDepth(kind, n, g, t) ==
    IF kind = "rdg"
    THEN IF roots[1].off5p < g THEN g - roots[1].off5p ELSE roots[1].off5p - g + 1
    ELSE IF roots[1].off5p < g THEN g - roots[1].off5p + t
         ELSE roots[1].off5p - (g + n - 1) + t

\* every base of the gap fits the budget at the depth where it is added
GapFits(kind, n, g) ==
    \A t \in 0..(n - 1) :
        GapOpen(kind) + t * GapExtend(kind) <= roots[1].cons[GapDepth(kind, n, g, t)]

\* one forward root whose ftab window does not cover the gap, gaps allowed
\* only off the read's ends, and a budget that admits the gap
GapCase(kind, n) ==
    /\ OneFwRoot
    /\ OnlyGap(kind, n)
    /\ sc.gapbar >= 1
    /\ \A ig \in GapsAt(q, kind, n) :
          /\ \A p \in GapOffs(kind, n, ig[2]) : ~(WinBeg <= p /\ p <= WinEnd)
          /\ GapFits(kind, n, ig[2])

SameKind(h, kind) == \A i \in 1..Len(h.edits) : h.edits[i].type = kind

\* a hit with at most one substitution, or one gap of up to three bases
OneBlock(h) ==
    \/ Len(h.edits) <= 1
    \/ Len(h.edits) <= 3 /\ (SameKind(h, "rdg") \/ SameKind(h, "rfg"))

\* the hits whose edits are n gap bases of this kind
GapHits(kind, n) ==
    {i \in 1..Len(sink) : Len(sink[i].edits) = n /\ SameKind(sink[i], kind)}

SameHit(a, b) ==
    /\ a.topf = b.topf /\ a.botf = b.botf /\ a.topb = b.topb /\ a.botb = b.botb
    /\ SameEdits(a.edits, b.edits)

\* C9: whatever roots are searched in one go, no two hits of the sink have
\* the same ranges and the same edits: an alignment reached from several
\* roots is one range of the sink
C9_NoDuplicateHits == \A i, j \in 1..Len(sink) : SameHit(sink[i], sink[j]) => i = j

\* a search from two roots in which a path of one root reported the
\* alignment a path of the other root had put in the sink
C9_Witness ==
    /\ Len(roots) > 1
    /\ \E k \in 1..Len(last.log.reports) :
          LET r == last.log.reports[k]
          IN  /\ ~r.fresh
              /\ \E i \in 1..Len(sink) :
                    /\ sink[i].topf = r.topf /\ sink[i].botf = r.botf
                    /\ sink[i].topb = r.topb /\ sink[i].botb = r.botb
                    /\ sink[i].pen = r.pen
                    /\ sink[i].rid # r.rid

(***************************************************************************)
(* C10                                                                     *)
(***************************************************************************)
IsPrefix(s, t) == Len(s) <= Len(t) /\ SubSeq(t, 1, Len(s)) = s

C11_FtabOnlyWhenItFits ==
    \A i \in 1..Len(last.log.matches) :
        LET x == last.log.matches[i]
            inside == IF x.toward3p THEN x.off5p_i + ftabChars <= QLen
                      ELSE x.off5p_i - ftabChars + 1 >= 0
            ok == ftabChars > 1 /\ ftabChars <= 20 /\ inside
        IN  /\ x.root => /\ x.jump \in {"ftab", "fchr"}
                         /\ x.jump = "ftab" => ok
                         /\ ~ok => x.jump = "fchr"
            /\ ~x.root => x.jump = "none"
            /\ x.offs \subseteq 0..(QLen - 1)

\* a root on a read shorter than ftabChars: it starts from fchr and goes on
\* step by step
C11_Witness ==
    \E i \in 1..Len(last.log.matches) :
        LET x == last.log.matches[i]
        IN  /\ x.root /\ QLen < ftabChars /\ x.jump = "fchr"
            /\ Cardinality(x.offs) > 1

(***************************************************************************)
(* C12                                                                     *)
(***************************************************************************)
IsGapEdge(edge) == edge.e.type \in {"rdg", "rfg"}

\* C12: no gap edge (read gap or reference gap, opened or extended) is
\* emitted at a read position less than gapbar away from the 5' end or from
\* the 3' end
C12_NoGapWithinBarrier ==
    \A i \in 1..Len(last.log.emitted) :
        LET x == last.log.emitted[i]
        IN  IsGapEdge(x.edge) =>
              /\ x.edge.off5p >= sc.gapbar
              /\ QLen - x.edge.off5p - 1 >= sc.gapbar

\* a recalcOutgoing that emitted a gap edge exactly gapbar away from the 3'
\* end and turned gaps down at a position nearer to an end
C12_Witness ==
    /\ sc.gapbar >= 1
    /\ \E i \in 1..Len(last.log.emitted) :
          /\ IsGapEdge(last.log.emitted[i].edge)
          /\ QLen - last.log.emitted[i].edge.off5p - 1 = sc.gapbar
    /\ \E i \in 1..Len(last.log.scanned) :
          /\ ~last.log.scanned[i].gapsOK
          /\ ~last.log.scanned[i].exh
          /\ last.log.scanned[i].cons - last.log.scanned[i].pen >= sc.rdgOp

(***************************************************************************)
(* C13                                                                     *)
(***************************************************************************)
\* C13 as stated: no edge is emitted at a position fewer than 20 characters
\* from the root
C13_NoEdgeWithinNoBranchDepth ==
    \A i \in 1..Len(last.log.emitted) :
        last.log.emitted[i].edge.pri.depth >= nobranchDepth

\* C13: the no-branch depth bounds the width of the ftab jump only:
\* recalcOutgoing entertains a mismatch at every position that is not
\* exhausted and whose budget cons[depth] - pen covers the mismatch cost,
\* at depths under 20 too, and a root jumps through ftab only if
\* ftabChars <= 20
C13_BranchAtAnyDepth ==
    /\ \A i \in 1..Len(last.log.scanned) :
          LET g == last.log.scanned[i]
          IN  (~g.exh /\ g.cons - g.pen >= sc.mm) => g.mm
    /\ \A i \in 1..Len(last.log.matches) :
          last.log.matches[i].jump = "ftab" => ftabChars <= nobranchDepth

\* the initialisation of a root that jumped through ftab and then emitted
\* a mismatch edge for the character after the jump
C13_Witness ==
    /\ ftabChars > 1
    /\ last.kind = "root"
    /\ \E i \in 1..Len(last.log.emitted) :
          LET x == last.log.emitted[i]
          IN  x.edge.e.type = "mm" /\ x.edge.pri.depth = ftabChars
    /\ \E i \in 1..Len(last.log.matches) : last.log.matches[i].jump = "ftab"

(***************************************************************************)
(* C14, C15                                                                *)
(***************************************************************************)
SameGo == pc'.run = pc.run

\* C14: within one go, a key the redundancy checker holds stays in it, and
\* the penalty stored for it never goes up
Keeps(before, after) ==
    \A x \in before : \E y \in after : y.key = x.key /\ y.pen <= x.pen

C14_FilterMonotone ==
    [][SameGo =>
        /\ Keeps(re, re')
        /\ \A i \in 1..Len(last'.log.checks) :
              /\ Keeps(re, last'.log.checks[i].before)
              /\ Keeps(last'.log.checks[i].before, last'.log.checks[i].after)
              /\ Keeps(last'.log.checks[i].after, re')]_vars

\* a call of check that offered an admitted key at a higher penalty: the
\* key kept its lower penalty, next to the other keys already held
C14_Witness ==
    \E i \in 1..Len(last.log.checks) :
        LET e == last.log.checks[i]
        IN  /\ ~e.ok /\ Cardinality(e.before) > 1 /\ e.before \subseteq re
            /\ \E x \in e.before : x.key = e.key /\ x.pen < e.pen

\* every call of check of the last step returned false exactly when its key
\* was admitted at a penalty <= p, and recorded p when it returned true
ChecksExact ==
    \A i \in 1..Len(last.log.checks) :
        LET e == last.log.checks[i]
        IN  /\ e.ok <=> ~(\E x \in e.before : x.key = e.key /\ x.pen <= e.pen)
            /\ e.ok => [key |-> e.key, pen |-> e.pen] \in e.after
            /\ ~e.ok => e.after = e.before

\* C15: check(key, p) returns false exactly when the key was admitted at a
\* penalty <= p, and otherwise returns true and records p; a key admitted
\* at p by an earlier step is reported as admitted to every planning query
\* contains(key, p') with p' >= p, and recalcOutgoing emits no edge for it
C15_CheckThenContains ==
    [][SameGo =>
        /\ ChecksExact'
        /\ \A u \in last'.log.queries :
              /\ (\E x \in re : x.key = u.key /\ x.pen <= u.pen) => u.hit
              /\ u.hit =>
                    ~\E i \in 1..Len(last'.log.emitted) :
                        LET x == last'.log.emitted[i]
                        IN  /\ x.id = u.id /\ x.edge.off5p = u.off5p
                            /\ x.edge.e.type = u.type /\ x.edge.e.chr = u.chr]_vars

\* a planning query that found its key admitted, in a step in which check
\* turned a key down
C15_Witness ==
    /\ \E u \in last.log.queries : u.hit
    /\ \E i \in 1..Len(last.log.checks) : ~last.log.checks[i].ok

(***************************************************************************)
(* C16                                                                     *)
(***************************************************************************)
\* the exploration flag of one outgoing transition of a position record
FlagOf(p, type, chr) ==
    IF type = "mm" THEN p.mm[chr]
    ELSE IF type = "rdg" THEN p.rdg[chr]
    ELSE p.rfg

FlagsKept(p1, p2) ==
    /\ \A j \in Bases : (p1.mm[j] => p2.mm[j]) /\ (p1.rdg[j] => p2.rdg[j])
    /\ p1.rfg => p2.rfg

SameTransition(e1, e2) ==
    /\ e1.posFlag = e2.posFlag /\ e1.e.type = e2.e.type /\ e1.e.chr = e2.e.chr

FlagsOnlyClaimed ==
    \A d \in 1..Len(pf) : d <= Len(pf') /\ FlagsKept(pf[d], pf'[d])

EdgeClaimsFreeFlag ==
    \A i \in 1..Len(last'.log.emitted) :
        LET x == last'.log.emitted[i].edge
        IN  /\ x.posFlag < Len(pf) => ~FlagOf(pf[x.posFlag + 1], x.e.type, x.e.chr)
            /\ x.posFlag < Len(pf') => FlagOf(pf'[x.posFlag + 1], x.e.type, x.e.chr)
            /\ \A k \in 1..Len(last'.log.emitted) :
                  k # i => ~SameTransition(x, last'.log.emitted[k].edge)

\* no two live descents are children of one parent by the same edit
OneChildPerTransition ==
    \A a, b \in 1..Len(df) :
        (a # b /\ df[a].parent # NoId /\ df[a].parent = df[b].parent
            /\ inited(df[a].edit) /\ inited(df[b].edit))
        => df[a].edit # df[b].edit

StartOf(id) ==
    CHOOSE n \in {last.log.inits[i] : i \in 1..Len(last.log.inits)} :
        n.id = id /\ n.stage = "init"

Started(id) ==
    \E i \in 1..Len(last.log.inits) :
        last.log.inits[i].id = id /\ last.log.inits[i].stage = "init"

\* C17: every init of the last step that returned false was followed by a
\* resize of both arenas to the sizes they had just before its descent was
\* allocated (the descent arena to the descent's id), at a moment when no
\* heap entry had an id at or above that size; and after the step no heap
\* entry refers past the descent arena
C17_FailedInitRollsBack ==
    /\ \A i \in 1..Len(last.log.returns) :
          LET x == last.log.returns[i]
          IN  ~x.succ =>
                /\ Started(x.id)
                /\ StartOf(x.id).dfsz = x.id + 1
                /\ \E k \in 1..Len(last.log.rollbacks) :
                      LET y == last.log.rollbacks[k]
                      IN  /\ y.dfsz = x.id /\ y.df = x.id
                          /\ y.pfsz = StartOf(x.id).pfsz /\ y.pf = y.pfsz
                          /\ \A h \in y.ids : h < y.dfsz
    /\ (last.log.returns # <<>> /\ ~last.log.returns[Len(last.log.returns)].succ)
          => /\ Len(df) = last.log.returns[Len(last.log.returns)].id
             /\ Len(pf) = StartOf(last.log.returns[Len(last.log.returns)].id).pfsz
    /\ \A i \in 1..Len(heap) : heap[i].id < Len(df)

\* a branch child whose bounce failed and which then failed itself: two
\* resizes in one step, position records given back, the heap not empty
C17_Witness ==
    /\ last.kind = "pop"
    /\ Len(last.log.rollbacks) >= 2
    /\ heap # <<>>
    /\ \E k \in 1..Len(last.log.rollbacks) :
          last.log.rollbacks[k].pfWas > last.log.rollbacks[k].pf

\* a bounce of descent id in the last step whose child's init returned true
BounceChildOf(id) ==
    \E b \in 1..Len(last.log.bounces) :
        /\ last.log.bounces[b].parent = id
        /\ \E r \in 1..Len(last.log.returns) :
              /\ last.log.returns[r].id = last.log.bounces[b].child
              /\ last.log.returns[r].succ

Better(a, b) ==
    \/ a.pen < b.pen
    \/ a.pen = b.pen /\ a.depth > b.depth
    \/ a.pen = b.pen /\ a.depth = b.depth /\ a.width < b.width
    \/ a.pen = b.pen /\ a.depth = b.depth /\ a.width = b.width
         /\ a.rootpri < b.rootpri

\* C19: the entry a pop returned was minimal in (penalty ascending, depth
\* descending, width ascending, root priority ascending) among the entries
\* then on the heap, and its priority was that of the best edge in its
\* descent's ranker
C19_PopReturnsMinimum ==
    \A i \in 1..Len(last.log.popped) :
        LET x == last.log.popped[i]
        IN  /\ \A p \in x.rest : ~Better(p, x.pri)
            /\ x.pri \in x.edges
            /\ \A p \in x.edges : ~Better(p, x.pri)

\* a pop that had to tell entries apart by penalty, by depth at equal
\* penalty, and by width at equal penalty and depth
C19_Witness ==
    \E i \in 1..Len(last.log.popped) :
        LET x == last.log.popped[i]
        IN  /\ \E p \in x.rest : p.pen > x.pri.pen
            /\ \E p \in x.rest : p.pen = x.pri.pen /\ p.depth < x.pri.depth
            /\ \E p \in x.rest : p.pen = x.pri.pen /\ p.depth = x.pri.depth
                                   /\ p.width > x.pri.width

(***************************************************************************)
(* C20                                                                     *)
(***************************************************************************)
\* every entry the last step put on the heap after its pop is no better
\* than the entry it popped
InsertedNoBetter ==
    \A i \in 1..Len(last.log.popped) : \A k \in 1..Len(last.log.inserted) :
        ~Better(last.log.inserted[k].pri, last.log.popped[i].pri)

\* the entry this step pops is no better than the one the step before popped
PopNoBetter ==
    \A i \in 1..Len(last.log.popped) : \A k \in 1..Len(last'.log.popped) :
        ~Better(last'.log.popped[k].pri, last.log.popped[i].pri)

OfferedTo(id) ==
    SelectSeq(last.log.emitted, LAMBDA x : x.id = id)

OfferedSet(id) == {OfferedTo(id)[i].edge : i \in 1..Len(OfferedTo(id))}

InOrderOfPri(out) ==
    \A i, k \in 1..Len(out) : i < k => ~Better(out[k].pri, out[i].pri)

\* out holds the best (at most five) of the edges offered to descent id
BestOfOffered(out, id) ==
    /\ Len(out) = IF Len(OfferedTo(id)) > 5 THEN 5 ELSE Len(OfferedTo(id))
    /\ \A i \in 1..Len(out) : out[i] \in OfferedSet(id)
    /\ \A e \in OfferedSet(id) :
          \/ \E i \in 1..Len(out) : out[i] = e
          \/ \A i \in 1..Len(out) : ~Better(e.pri, out[i].pri)

\* C21: every ranker holds at most 5 edges in priority order; a ranker
\* filled from empty by the last step holds the best of the edges offered
\* to it; bestPri was the priority of the best edge held; and rotate
\* removed and returned exactly that edge and left the others as they were
C21_RankerKeepsBestFive ==
    /\ \A d \in 1..Len(df) : Len(df[d].out) <= 5 /\ InOrderOfPri(df[d].out)
    /\ \A d \in 1..Len(df) :
          (Len(OfferedTo(d - 1)) > 0 /\ df[d].descid = d - 1)
              => BestOfOffered(df[d].out, d - 1)
    /\ \A i \in 1..Len(last.log.popped) :
          LET x == last.log.popped[i]
          IN  /\ x.out # <<>>
              /\ x.pri = x.out[1].pri
              /\ \A k \in 1..Len(x.out) : ~Better(x.out[k].pri, x.pri)
              /\ last.log.followed.id = x.id
              /\ last.log.followed.edge = x.out[1]
              /\ Len(OfferedTo(x.id)) = 0 => df[x.id + 1].out = Tail(x.out)

\* a ranker that was offered more than five edges and kept five of them,
\* an edge it turned away being worse than all it kept
C21_Witness ==
    \E d \in 1..Len(df) :
        /\ Len(OfferedTo(d - 1)) > 5
        /\ df[d].descid = d - 1
        /\ Len(df[d].out) = 5
        /\ \E e \in OfferedSet(d - 1) :
              \A i \in 1..5 : Better(df[d].out[i].pri, e.pri)
        /\ \E i \in 1..5 : OfferedTo(d - 1)[6].edge = df[d].out[i]

Refused(x) == \E i \in 1..Len(x.oks) : ~x.oks[i]

\* it turned down the key checked right after the ftab/fchr jump of a root
RefusedAtJump(x) == x.root /\ x.oks # <<>> /\ ~x.oks[1]

HasEdges(id) == Len(OfferedTo(id)) > 0

RolledBack(id) ==
    \E k \in 1..Len(last.log.rollbacks) : last.log.rollbacks[k].dfsz = id

\* C23: whenever check turns a key down, after the jump or after a step,
\* followMatches returns false, the descent gets no outgoing edges and the
\* caller rolls its position records back
C23_RefusedMeansFailure ==
    \A i \in 1..Len(last.log.matches) :
        LET x == last.log.matches[i]
        IN  Refused(x) => ~x.succ /\ ~HasEdges(x.id) /\ RolledBack(x.id)

\* C23 as the code has it: a key turned down right after the ftab/fchr jump
\* makes followMatches return false at once, the descent gets no outgoing
\* edges and the caller rolls it back; a key turned down after a step only
\* ends the matching loop at once: followMatches returns true without
\* having reached an end of the read
C23_RefusedStopsMatching ==
    \A i \in 1..Len(last.log.matches) :
        LET x == last.log.matches[i]
        IN  /\ RefusedAtJump(x) =>
                  /\ Len(x.oks) = 1
                  /\ ~x.succ /\ ~HasEdges(x.id) /\ RolledBack(x.id)
            /\ (Refused(x) /\ ~RefusedAtJump(x)) =>
                  /\ ~x.oks[Len(x.oks)]
                  /\ \A k \in 1..(Len(x.oks) - 1) : x.oks[k]
                  /\ x.succ /\ ~x.hitEnd

\* a key turned down after a step of a descent that then got outgoing
\* edges and stayed
C23_Witness ==
    \E i \in 1..Len(last.log.matches) :
        LET x == last.log.matches[i]
        IN  /\ Refused(x) /\ ~RefusedAtJump(x) /\ Len(x.oks) > 1
            /\ HasEdges(x.id) /\ ~RolledBack(x.id)

(***************************************************************************)
(* C24, C25                                                                *)
(***************************************************************************)
\* the record init logged for descent id at the given stage of the last step
InitAt(id, stage) ==
    CHOOSE n \in {last.log.inits[i] : i \in 1..Len(last.log.inits)} :
        n.id = id /\ n.stage = stage

HasInitAt(id, stage) ==
    \E i \in 1..Len(last.log.inits) :
        last.log.inits[i].id = id /\ last.log.inits[i].stage = stage

\* what followMatches logged for descent id in the last step
MatchOf(id) ==
    CHOOSE x \in {last.log.matches[i] : i \in 1..Len(last.log.matches)} : x.id = id

HasMatch(id) == \E i \in 1..Len(last.log.matches) : last.log.matches[i].id = id

\* C24: a bounce child is created only when followMatches of its parent
\* reached one end of the read while the other end is unaligned; the child has
\* the parent's al5pi, al5pf, penalty and gapadd, the opposite direction, no
\* incoming edit, the parent as its parent and the SA range the parent reached
C24_BounceChildInheritsParent ==
    \A i \in 1..Len(last.log.bounces) :
        LET b == last.log.bounces[i]
            p == InitAt(b.parent, "matched")
            c == InitAt(b.child, "init")
            x == MatchOf(b.parent)
        IN  /\ HasMatch(b.parent) /\ HasInitAt(b.parent, "matched")
            /\ HasInitAt(b.child, "init")
            /\ x.hitEnd /\ ~x.done
            /\ (p.al5pi = 0) # (p.al5pf = QLen - 1)
            /\ c.al5pi = p.al5pi /\ c.al5pf = p.al5pf /\ c.pen = p.pen
            /\ c.gapadd = p.gapadd /\ c.l2r = ~p.l2r /\ c.edit = "none"
            /\ c.parent = b.parent
            /\ c.topf = x.topf /\ c.botf = x.botf
            /\ c.topb = x.topb /\ c.botb = x.botb

\* C25: bounce is only ever invoked with a non-empty SA range (botf > topf),
\* also after followMatches of a root returned failure from a jump that
\* reached an end of the read
C25_BounceRangeNonEmpty ==
    \A i \in 1..Len(last.log.bounces) :
        last.log.bounces[i].botf > last.log.bounces[i].topf

(***************************************************************************)
(* C26                                                                     *)
(***************************************************************************)
\* C26: every edge that rotate() removed in followBestOutgoing is acted on:
\* it is reported to the sink or a child descent is constructed from it, also
\* when the rotation emptied the ranker and recalcOutgoing ran again
C26_RotatedEdgeActedOn ==
    last.log.followed.id # NoId =>
        last.log.followed.outcome \in {"reported", "child", "rolledback"}

(***************************************************************************)
(* C27                                                                     *)
(***************************************************************************)
\* the edges recalcOutgoing accepted for descent id in the last step that
\* its ranker did not retain
NotRetained(id) ==
    {e \in OfferedSet(id) :
        \A i \in 1..Len(df[id + 1].out) : df[id + 1].out[i] # e}

\* the transition of edge e can be enumerated again: recalcOutgoing skips a
\* transition whose flag says it was explored
StillOpen(e) ==
    e.posFlag < Len(pf) /\ ~FlagOf(pf[e.posFlag + 1], e.e.type, e.e.chr)

\* C27: lastRecalc is true exactly when the last recalcOutgoing of a descent
\* accepted at most 5 candidates; when it accepted more, every candidate the
\* ranker did not retain is left for the later run of recalcOutgoing to
\* enumerate again, so that no admissible edge is lost
C27_UnretainedEnumeratedAgain ==
    \A d \in 1..Len(df) :
        (Len(OfferedTo(d - 1)) > 0 /\ df[d].descid = d - 1)
            => /\ df[d].lastRecalc <=> Len(OfferedTo(d - 1)) <= 5
               /\ \A e \in NotRetained(d - 1) : StillOpen(e)

(***************************************************************************)
(* C28                                                                     *)
(***************************************************************************)
\* the descent the last step followed an edge out of, and its direction
FollowedFrom == df[last.log.followed.id + 1]

FollowedToward3p == (FollowedFrom.l2r = roots[FollowedFrom.rid + 1].fw)

\* the span [al5pi, al5pf] is the parent's span moved to the followed edge e:
\* up to the edit's offset, or short of it by one character for a read gap
SpanAfterEdge(al5pi, al5pf, e) ==
    IF FollowedToward3p
    THEN /\ al5pi = FollowedFrom.al5pi
         /\ al5pf = IF e.e.type = "rdg" THEN e.off5p - 1 ELSE e.off5p
    ELSE /\ al5pf = FollowedFrom.al5pf
         /\ al5pi = IF e.e.type = "rdg" THEN e.off5p + 1 ELSE e.off5p

\* C28: a child reached by a read-gap edge does not count the read character
\* at the edit's offset as aligned (al5pf is the offset minus 1 toward 3',
\* al5pi the offset plus 1 toward 5'); a child reached by a mismatch or a
\* ref-gap edge has its aligned span ending exactly at the edit's offset
C28_ReadGapLeavesCharUnaligned ==
    LET f == last.log.followed
    IN  /\ f.outcome \in {"child", "rolledback"} =>
              /\ HasInitAt(f.dfsz, "init")
              /\ InitAt(f.dfsz, "init").parent = f.id
              /\ InitAt(f.dfsz, "init").edit = f.edge.e.type
              /\ SpanAfterEdge(InitAt(f.dfsz, "init").al5pi,
                               InitAt(f.dfsz, "init").al5pf, f.edge)
        /\ f.outcome = "reported" =>
              \E i \in 1..Len(last.log.reports) :
                  /\ last.log.reports[i].by = "followBestOutgoing"
                  /\ SpanAfterEdge(last.log.reports[i].al5pi,
                                   last.log.reports[i].al5pf, f.edge)

C28_Witness ==
    LET f == last.log.followed
    IN  /\ f.outcome = "child"
        /\ f.edge.e.type = "rdg"
        /\ FollowedToward3p
        /\ HasInitAt(f.dfsz, "init")
        /\ InitAt(f.dfsz, "init").al5pf = f.edge.off5p - 1
        /\ InitAt(f.dfsz, "init").al5pf >= InitAt(f.dfsz, "init").al5pi

(***************************************************************************)
(* C29                                                                     *)
(***************************************************************************)
RECURSIVE GapBalance(_)
\* read gaps minus reference gaps among the edits es
GapBalance(es) ==
    IF es = <<>> THEN 0
    ELSE (IF isReadGap(Head(es)) THEN 1
          ELSE IF isRefGap(Head(es)) THEN 0 - 1 ELSE 0) + GapBalance(Tail(es))

\* al5pf - al5pi + 1 + gapadd of the child that the edge of query x would
\* create out of descent x.id
PlannedSpan(x) ==
    LET d == df[x.id + 1]
        t3 == (d.l2r = roots[d.rid + 1].fw)
        lo == IF t3 THEN d.al5pi
              ELSE IF x.type = "rdg" THEN x.off5p + 1 ELSE x.off5p
        hi == IF ~t3 THEN d.al5pf
              ELSE IF x.type = "rdg" THEN x.off5p - 1 ELSE x.off5p
        g == d.gapadd + (IF x.type = "rdg" THEN 1
                         ELSE IF x.type = "rfg" THEN 0 - 1 ELSE 0)
    IN  hi - lo + 1 + g

\* C29: the gapadd of every descent is the number of read gaps minus the
\* number of reference gaps among the edits of its ancestor chain, its own
\* incoming edit included; and the ref_span that recalcOutgoing passes to
\* contains for a planned edge is al5pf - al5pi + 1 + gapadd of the child
\* that edge would create
C29_GapaddAndRefSpan ==
    /\ \A d \in 1..Len(df) :
          df[d].inited => df[d].gapadd = GapBalance(ChainEdits(df, d - 1))
    /\ \A x \in last.log.queries :
          x.id < Len(df) => x.key[4] = PlannedSpan(x)

C29_Witness ==
    \E x \in last.log.queries :
        /\ x.id < Len(df)
        /\ x.type = "rfg"
        /\ df[x.id + 1].gapadd = 1
        /\ isReadGap(df[x.id + 1].edit)
        /\ x.key[4] = PlannedSpan(x)
        /\ \E y \in last.log.queries : y.id = x.id /\ y.type = "rdg"

(***************************************************************************)
(* C30                                                                     *)
(***************************************************************************)
\* the positions recalcOutgoing scanned in the last step for the edge of x
GatesOf(x) ==
    {g \in {last.log.scanned[i] : i \in 1..Len(last.log.scanned)} :
        g.id = x.id /\ g.off5p = x.edge.off5p}

\* edge x extends the incoming gap of its descent: it lies at the descent's
\* first position and has the type of the descent's incoming edit
ExtendsAt(x, g) == g.first /\ g.edit = x.edge.e.type

ChildInits ==
    {c \in {last.log.inits[i] : i \in 1..Len(last.log.inits)} :
        c.stage = "init" /\ c.parent # NoId}

\* the parent of the child record c as init of the child found it
ParentOf(c) == IF HasInitAt(c.parent, "matched")
               THEN InitAt(c.parent, "matched")
               ELSE [pen |-> df[c.parent + 1].pen, al5pi |-> df[c.parent + 1].al5pi,
                     al5pf |-> df[c.parent + 1].al5pf]

RECURSIVE ChecksOfMatches(_)
\* the number of calls of check that the runs ms of followMatches made
ChecksOfMatches(ms) ==
    IF ms = <<>> THEN 0 ELSE Len(Head(ms).oks) + ChecksOfMatches(Tail(ms))

\* the calls cs of check lead from the filter state r0 to the state r1, each
\* call starting from what the one before it left
ChecksLead(r0, cs, r1) ==
    IF cs = <<>> THEN r1 = r0
    ELSE /\ cs[1].before = r0
         /\ \A i \in 1..(Len(cs) - 1) : cs[i + 1].before = cs[i].after
         /\ cs[Len(cs)].after = r1

\* C32: within one go the redundancy filter changes only through the calls
\* of check made by followMatches; recalcOutgoing, which only calls contains,
\* and followBestOutgoing itself leave it as it is, so that an edge is tested
\* when it is planned and not again when it is followed
C32_FilterChangesOnlyByCheck ==
    [][SameGo =>
        /\ ChecksLead(re, last'.log.checks, re')
        /\ Len(last'.log.checks) = ChecksOfMatches(last'.log.matches)
        /\ last'.log.followed.outcome \in {"reported", "dropped"} => re' = re]_vars

\* an edge was followed into a child whose followMatches changed the filter,
\* and the recalcOutgoing of that child asked about keys the filter lacks
C32_Witness ==
    /\ last.log.followed.outcome = "child"
    /\ Len(last.log.checks) > 0
    /\ last.log.checks[1].before # re
    /\ \E u \in last.log.queries : ~u.hit /\ u.id = last.log.followed.dfsz
    /\ \A u \in last.log.queries :
          ~u.hit => ~\E x \in re : x.key = u.key
(***************************************************************************)
(* C33                                                                     *)
(***************************************************************************)
\* the position-record ids descent d (an index of df) allocated
RecordsOf(d) == df[d].posid..(df[d].posid + df[d].nalloc - 1)

\* C33: the ranges of position-record ids allocated by distinct live descents
\* are disjoint, and every record of a live descent is in the arena: no
\* rollback truncated it
C33_RecordsDisjoint ==
    /\ \A d \in 1..Len(df) :
          df[d].nalloc > 0 => \A k \in RecordsOf(d) : k >= 0 /\ k < Len(pf)
    /\ \A d1, d2 \in 1..Len(df) :
          (d1 # d2 /\ df[d1].nalloc > 0 /\ df[d2].nalloc > 0)
              => RecordsOf(d1) \cap RecordsOf(d2) = {}

\* a rollback gave records back while two descents stay live, the records of
\* one of them ending where the arena was cut
C33_Witness ==
    /\ \E i \in 1..Len(last.log.rollbacks) :
          /\ last.log.rollbacks[i].pfWas > last.log.rollbacks[i].pf
          /\ last.log.rollbacks[i].pf = Len(pf)
    /\ \E d1, d2 \in 1..Len(df) :
          /\ d1 < d2 /\ df[d1].nalloc > 0 /\ df[d2].nalloc > 0
          /\ df[d2].posid + df[d2].nalloc = Len(pf)

C36_HeapEntriesCurrent ==
    /\ \A i \in 1..Len(heap) :
          /\ heap[i].id >= 0 /\ heap[i].id < Len(df)
          /\ df[heap[i].id + 1].out # <<>>
          /\ heap[i].pri = bestPri(df[heap[i].id + 1].out)
    /\ \A i, k \in 1..Len(heap) : i # k => heap[i].id # heap[k].id

\* a descent put back on the heap with the priority of its next edge after
\* an edge of it was followed and a rollback took its child away
C36_Witness ==
    /\ Len(heap) >= 2
    /\ last.log.followed.outcome = "rolledback"
    /\ \E i \in 1..Len(heap) :
          /\ heap[i].id = last.log.followed.id
          /\ heap[i].pri # last.log.followed.edge.pri

(***************************************************************************)
(* C35                                                                     *)
(***************************************************************************)
\* C35: followMatches of a descent that is not a root starts at the first
\* read position outside the span the descent was created with (al5pf + 1
\* toward 3', al5pi - 1 toward 5'), also when the span is a single character,
\* and visits no read position inside that span
C35_ExtensionStartsOutsideSpan ==
    \A i \in 1..Len(last.log.matches) :
        LET x == last.log.matches[i]
            c == InitAt(x.id, "init")
        IN  ~x.root =>
              /\ HasInitAt(x.id, "init")
              /\ x.off5p_i = IF x.toward3p THEN c.al5pf + 1 ELSE c.al5pi - 1
              /\ \A o \in x.offs : o < c.al5pi \/ o > c.al5pf

(***************************************************************************)
(* C37                                                                     *)
(***************************************************************************)
\* C37: a followBestOutgoing leaves the descent arena larger than it found it
\* only if it built a child whose init succeeded, and one that ends with the
\* report of a full-length alignment leaves both arenas at the sizes they had
\* when it was called
C37_ArenaGrowsOnlyWithChild ==
    last.kind = "pop" =>
        LET f == last.log.followed
        IN  /\ Len(df) > f.dfsz => f.outcome = "child"
            /\ f.outcome = "reported" => Len(df) = f.dfsz /\ Len(pf) = f.pfsz

(***************************************************************************)
(* C38                                                                     *)
(***************************************************************************)
\* the descents of the arena that were initialised
LiveIds == {i \in 0..(Len(df) - 1) : df[i + 1].inited}

\* the number of times the direction of extension changes on the chain from
\* the root configuration to descent i
RECURSIVE Flips(_)
Flips(i) ==
    LET d == df[i + 1]
    IN  IF d.parent = NoId
        THEN (IF d.l2r # roots[d.rid + 1].l2r THEN 1 ELSE 0)
        ELSE Flips(d.parent) + (IF d.l2r # df[d.parent + 1].l2r THEN 1 ELSE 0)

\* descent i extends toward the 3' end of the read
Toward3p(i) == df[i + 1].l2r = roots[df[i + 1].rid + 1].fw

\* C38: on the chain from a root to any descent the direction of extension
\* flips at most once, and a descent past the flip has its span at the read
\* end it turned away from, so that reaching the other end completes the read
C38_DirectionFlipsAtMostOnce ==
    \A i \in LiveIds :
        /\ Flips(i) <= 1
        /\ Flips(i) = 1 =>
              IF Toward3p(i) THEN df[i + 1].al5pi = 0
                             ELSE df[i + 1].al5pf = QLen - 1

\* followBestOutgoing flipped the direction for a child whose edit reached a
\* read end, and that child has a child of its own
C38_Witness ==
    \E i \in LiveIds, j \in LiveIds :
        /\ df[i + 1].parent # NoId
        /\ df[i + 1].edit.type # "none"
        /\ df[i + 1].l2r # df[df[i + 1].parent + 1].l2r
        /\ df[j + 1].parent = i
        /\ Flips(j) = 1

(***************************************************************************)
(* C39                                                                     *)
(***************************************************************************)
\* the position records descent id allocated: from the sizes its init and its
\* followMatches found, if it was initialised in the last step, and from its
\* posid and the number it allocated otherwise
ScanRecords(id) ==
    IF HasInitAt(id, "init") /\ HasInitAt(id, "matched")
    THEN InitAt(id, "init").pfsz..(InitAt(id, "matched").pfsz - 1)
    ELSE RecordsOf(id + 1)

\* the depth of the followed edge in the descent it leaves
FollowedDoff ==
    IF FollowedToward3p
    THEN last.log.followed.edge.off5p - FollowedFrom.off5p_i
    ELSE FollowedFrom.off5p_i - last.log.followed.edge.off5p

\* the followed edge is a reference gap at depth 0: no record is read
FollowedOwn == isRefGap(last.log.followed.edge.e) /\ FollowedDoff = 0

\* the index of the record followBestOutgoing reads for the followed edge
FollowedRecord ==
    FollowedFrom.posid + FollowedDoff
        - (IF isRefGap(last.log.followed.edge.e) THEN 1 ELSE 0)

\* C39: every position record recalcOutgoing or followBestOutgoing reads for
\* a descent is one of the records that descent allocated, except for a
\* reference gap at depth 0, for which followBestOutgoing reads no record
C39_ReadsOwnRecords ==
    /\ \A i \in 1..Len(last.log.scanned) :
          last.log.scanned[i].d \in ScanRecords(last.log.scanned[i].id)
    /\ last.log.followed.outcome \in {"reported", "child", "rolledback"}
          /\ ~FollowedOwn
          => FollowedRecord \in RecordsOf(last.log.followed.id + 1)
====
